---- MODULE Spec2Model ----
(***************************************************************************)
(* Publication pipeline of content_manager (apps/posts): Post.save, the    *)
(* slot scheduler (next_auto_slot, approve_post, assign_auto_slot), the    *)
(* due-poll (task_publish_due) and the dispatch task (publish_post).       *)
(*                                                                         *)
(* Time is counted in minutes.  Timestamps stored in the database and the  *)
(* clock `now` are UTC instants; next_auto_slot computes on Europe/Warsaw  *)
(* wall-clock minutes, as the code does after astimezone()/localtime().    *)
(* Minute 0 of the wall clock is local midnight of day 0 of the model.     *)
(***************************************************************************)
EXTENDS Integers, FiniteSets, Sequences, TLC

\* ---------------------------------------------------------------- bounds
NumPosts == 2
PipelinePosts == 1
MaxQueue == 2
MaxSent == 1
MaxAdvance == 30
MaxDraftTarget == 3
MaxGenCount == 4
MaxCacheCalls == 2
MaxPayload == 2
MaxAttachCalls == 2

\* ------------------------------------------------------ program constants
\* None of a nullable DateTimeField / BigIntegerField.
NULL == -1
Day == 1440
MinutesPerHour == 60
SlotStepDefault == 30
SlotStartHourDefault == 6
SlotEndHourDefault == 23
SlotEndMinuteDefault == 30
MaxMediaPerPost == 5
DraftTtlDaysDefault == 3
MediaCacheTtlDays == 7
PublishedPostTtlDays == 30
StaleScheduleGraceMinutes == 60
\* Europe/Warsaw: CET is UTC+60 min, CEST is UTC+120 min; on the day of the
\* spring transition (day DstDay of the model) wall clock 02:00 CET jumps to
\* 03:00 CEST.
CetOffset == 60
CestOffset == 120
DstDay == 2

Posts == 1..NumPosts
DueWorkers == {"d1", "d2"}
PubWorkers == {"p1", "p2"}

\* Post.Status of models.py.
Status == {"DRAFT", "APPROVED", "SCHEDULED", "PUBLISHED", "REJECTED"}
\* Post.Status.PUBLISHING, used by tasks.py and the tests; its declaration is
\* not among the sources.
PUBLISHING == "PUBLISHING"

Max(a, b) == IF a >= b THEN a ELSE b

\* ------------------------------------------------------------ time zone
\* Wall-clock minute at which the spring gap starts (02:00 of DstDay) and the
\* UTC instant of the transition.
GapStart == DstDay * Day + 2 * MinutesPerHour
TransitionUtc == GapStart - CetOffset

\* dt.astimezone(tz_waw) / timezone.localtime(dt, tz_waw): UTC instant to
\* wall clock.
LocalTime(u) == IF u < TransitionUtc THEN u + CetOffset ELSE u + CestOffset

\* utcoffset() of a wall-clock value, as used when an aware datetime is
\* written to the database: a wall time at or after the gap start counts as
\* CEST, so a wall time inside the gap (02:00..02:59) maps to an instant
\* whose real wall time is one hour earlier.
ToUtc(wall) == IF wall < GapStart THEN wall - CetOffset ELSE wall - CestOffset

DayStart(wall) == (wall \div Day) * Day
HourOf(wall) == (wall % Day) \div MinutesPerHour
MinuteOf(wall) == wall % MinutesPerHour

\* ------------------------------------------------------------- channel
DefaultChannel ==
  [slot_step_min |-> SlotStepDefault, slot_start_hour |-> SlotStartHourDefault,
   slot_end_hour |-> SlotEndHourDefault, slot_end_minute |-> SlotEndMinuteDefault,
   draft_ttl_days |-> DraftTtlDaysDefault, bot_token |-> "123"]

\* Channel.bot_token values: empty, blank, a token.
BotTokens == {"", " ", "123"}

VARIABLES
  now,        \* timezone.now(), a UTC instant in minutes
  channel,    \* the Channel row (read-only to the pipeline)
  db,         \* connection.features of the database backend
  rows,       \* ids of the Post rows that exist
  posts,      \* the Post table: id -> row
  queue,      \* publish_post messages waiting in the task queue, per post id
  dw,         \* task_publish_due executions: worker -> [pc, due_ids, now]
  pw,         \* publish_post executions: worker -> [pc, post_id, post]
  sent,       \* per post id, how many dispatches reached the platform
  raised,     \* post ids whose publish_post execution ended in an uncaught exception
  ns,         \* a next_auto_slot call followed pass by pass: [pc, candidate, start, end, safety_counter, used]
  gen,        \* a task_gpt_generate_for_channel execution and the channel's draft count
  mdb,        \* the PostMedia rows of one post, its source_metadata["media"], the cache files
  att,        \* an attach_media_from_payload call followed descriptor by descriptor
  rs,         \* a _resolve_media_reference call: its arguments, the outside world, result and requests
  tx,         \* a _publish_async call: the post's text, its attachments, what reached the platform
  sv          \* service calls running side by side: caller -> [pc, and what the caller has read]

vars == <<now, channel, db, rows, posts, queue, dw, pw, sent, raised, ns, gen, mdb, att, rs, tx, sv>>

\* ---------------------------------------------------------------- rows
NoPublication == [status |-> "", error |-> "", requested_at |-> NULL, completed_at |-> NULL]

\* A Post row.  published_at is the column that HistoryPostAdmin and the
\* tests read and write; dupe_score is NULL or the published corpus it was
\* computed against.
NoRow ==
  [status |-> "DRAFT", scheduled_at |-> NULL, schedule_mode |-> "AUTO",
   expires_at |-> NULL, message_id |-> NULL, dupe_score |-> NULL,
   published_at |-> NULL, source_metadata |-> NoPublication]

\* compute_dupe(post): the best similarity of the post's text to the texts
\* of the Published posts; the texts are fixed, so the score is a function of
\* the set of Published posts, which stands for it here.
compute_dupe(tbl, ids) == {q \in ids : tbl[q].status = "PUBLISHED"}

AllFields == DOMAIN NoRow

IdleDue == [pc |-> "idle", due_ids |-> {}, now |-> NULL]
IdlePub == [pc |-> "idle", post_id |-> 0, post |-> NoRow]
IdleGen == [pc |-> "idle", count |-> 0, i |-> 0, added |-> 0, target |-> 0, before |-> 0, drafts |-> 0]
NoPath == <<>>
NoMedia == [id |-> 0, type |-> "photo", source_url |-> "", resolver |-> "", order |-> 0, auto_album |-> FALSE,
            cache_path |-> NoPath, expires_at |-> NULL, detected_type |-> ""]
EmptyMedia == [rows |-> {}, next_id |-> 1, meta |-> <<>>, files |-> {}, requests |-> 0, calls |-> 0, returned |-> NoPath]
IdleAttach == [pc |-> "idle", payload |-> <<>>, album |-> <<>>, i |-> 0, next_order |-> 0, counts |-> <<>>, processed |-> {},
               entries |-> <<>>, consumed |-> <<>>, first_id |-> 0, results |-> <<>>]
NoReference == [direct_url |-> "", tg_post_url |-> "", tweet_url |-> ""]
NoWorld == [telegram |-> "not_configured", service |-> "unset", page |-> "none", stalker |-> "none", mirror |-> "none"]
IdleResolve == [pc |-> "idle", resolver |-> "", reference |-> NoReference, world |-> NoWorld, url |-> "", calls |-> <<>>]
IdleSlot ==
  [pc |-> "idle", candidate |-> NULL, start |-> NULL, end |-> NULL,
   safety_counter |-> 0, used |-> {}]
NoText == [len |-> 0, blank |-> TRUE]
IdleTx == [pc |-> "idle", text |-> NoText, medias |-> <<>>, group |-> <<>>, messages |-> <<>>, outcome |-> ""]
IdleCall == [pc |-> "idle", post_id |-> 0, used |-> {}, pm |-> NoMedia, path |-> NoPath]
Callers == {"a", "b"}

\* Post.save() without the Approved-to-Scheduled rule.
PostSaveHook_NoAdvance(obj, ch, t) ==
  IF obj.status = "DRAFT" /\ obj.expires_at = NULL
  THEN [obj EXCEPT !.expires_at = t + ch.draft_ttl_days * Day]
  ELSE obj

\* Post.save(): the status and expiry rules applied to the in-memory object
\* before it is written.
PostSaveHook(obj, ch, t) ==
  LET o1 == IF obj.status = "APPROVED" /\ obj.scheduled_at # NULL
            THEN [obj EXCEPT !.status = "SCHEDULED"]
            ELSE obj
  IN IF o1.status = "DRAFT" /\ o1.expires_at = NULL
     THEN [o1 EXCEPT !.expires_at = t + ch.draft_ttl_days * Day]
     ELSE o1

\* super().save(update_fields=fields): only the named columns are written.
WriteFields(row, obj, fields) ==
  [f \in AllFields |-> IF f \in fields THEN obj[f] ELSE row[f]]

\* post.save(update_fields=fields) on the row `row`.
SaveRow(row, obj, ch, t, fields) == WriteFields(row, PostSaveHook(obj, ch, t), fields)

\* -------------------------------------------------------- slot scheduler
\* The claimed slots next_auto_slot reads: scheduled_at of the channel's
\* posts in status APPROVED or SCHEDULED, converted to local time.
UsedSlots(tbl, ids) ==
  {LocalTime(tbl[p].scheduled_at) :
     p \in {q \in ids : tbl[q].status \in {"APPROVED", "SCHEDULED"}
                        /\ tbl[q].scheduled_at # NULL}}

\* The "while candidate in used_slots" loop of next_auto_slot.  Every pass
\* moves the candidate to a wall-clock value not visited before, so at most
\* Cardinality(used) + 1 candidates are examined; fuel counts them.
RECURSIVE SlotLoop(_, _, _, _, _, _, _)
SlotLoop(candidate, start, end, safety_counter, step, used, fuel) ==
  IF candidate \notin used \/ fuel = 0
  THEN candidate
  ELSE LET c == candidate + step
           n == safety_counter + 1
       IN IF c > end \/ n > ((24 * MinutesPerHour) \div step) + 1
          THEN SlotLoop(start + Day, start + Day, end + Day, 0, step, used, fuel - 1)
          ELSE SlotLoop(c, start, end, n, step, used, fuel - 1)

\* next_auto_slot up to the loop, without the step past a candidate that is
\* not after now.
SlotEntry_NoAdvance(ch, t) ==
  LET local == LocalTime(t)
      step == Max(ch.slot_step_min, 1)
      start == DayStart(local) + ch.slot_start_hour * MinutesPerHour
      end == DayStart(local) + ch.slot_end_hour * MinutesPerHour + ch.slot_end_minute
      minute_block == (MinuteOf(local) \div step) * step
      c0 == DayStart(local) + HourOf(local) * MinutesPerHour + minute_block
      c2 == IF c0 < start THEN start ELSE c0
      roll == c2 > end
  IN [candidate |-> IF roll THEN start + Day ELSE c2,
      start |-> IF roll THEN start + Day ELSE start,
      end |-> IF roll THEN end + Day ELSE end]

\* next_auto_slot up to the loop: the first candidate and the window, in
\* wall-clock minutes.
SlotEntry(ch, t) ==
  LET local == LocalTime(t)
      step == Max(ch.slot_step_min, 1)
      start == DayStart(local) + ch.slot_start_hour * MinutesPerHour
      end == DayStart(local) + ch.slot_end_hour * MinutesPerHour + ch.slot_end_minute
      minute_block == (MinuteOf(local) \div step) * step
      c0 == DayStart(local) + HourOf(local) * MinutesPerHour + minute_block
      c1 == IF c0 <= local THEN c0 + step ELSE c0
      c2 == IF c1 < start THEN start ELSE c1
      roll == c2 > end
  IN [candidate |-> IF roll THEN start + Day ELSE c2,
      start |-> IF roll THEN start + Day ELSE start,
      end |-> IF roll THEN end + Day ELSE end]

\* next_auto_slot(channel, dt): the wall-clock slot returned.
next_auto_slot(ch, t, used) ==
  LET e == SlotEntry(ch, t)
  IN SlotLoop(e.candidate, e.start, e.end, 0, Max(ch.slot_step_min, 1), used,
              Cardinality(used) + 1)

\* One pass of the loop that rolls to the window start of the same day.
SlotPassState_SameDay(s, step) ==
  LET c == s.candidate + step
      n == s.safety_counter + 1
  IN IF c > s.end \/ n > ((24 * MinutesPerHour) \div step) + 1
     THEN [s EXCEPT !.candidate = s.start, !.safety_counter = 0]
     ELSE [s EXCEPT !.candidate = c, !.safety_counter = n]

\* One pass of the "while candidate in used_slots" loop on the call state s.
SlotPassState(s, step) ==
  LET c == s.candidate + step
      n == s.safety_counter + 1
  IN IF c > s.end \/ n > ((24 * MinutesPerHour) \div step) + 1
     THEN [s EXCEPT !.candidate = s.start + Day, !.start = s.start + Day,
                    !.end = s.end + Day, !.safety_counter = 0]
     ELSE [s EXCEPT !.candidate = c, !.safety_counter = n]

\* next_auto_slot(channel) is called: the candidate is computed and the
\* claimed slots are read.
SlotCall ==
  /\ ns.pc = "idle"
  /\ LET e == SlotEntry(channel, now)
     IN ns' = [pc |-> "loop", candidate |-> e.candidate, start |-> e.start,
               end |-> e.end, safety_counter |-> 0, used |-> UsedSlots(posts, rows)]
  /\ UNCHANGED <<now, channel, db, tx, sv, gen, mdb, att, rs, rows, posts, queue, dw, pw, sent, raised>>

\* The loop condition holds: one pass.
SlotPass ==
  /\ ns.pc = "loop"
  /\ ns.candidate \in ns.used
  /\ ns' = SlotPassState(ns, Max(channel.slot_step_min, 1))
  /\ UNCHANGED <<now, channel, db, tx, sv, gen, mdb, att, rs, rows, posts, queue, dw, pw, sent, raised>>

\* The loop condition fails: return candidate.
SlotReturn ==
  /\ ns.pc = "loop"
  /\ ns.candidate \notin ns.used
  /\ ns' = [ns EXCEPT !.pc = "done"]
  /\ UNCHANGED <<now, channel, db, tx, sv, gen, mdb, att, rs, rows, posts, queue, dw, pw, sent, raised>>

\* approve_post that leaves the draft's expiry in place.
ApprovedObject_KeepsExpiry(obj, slot) ==
  [obj EXCEPT !.status = "APPROVED", !.schedule_mode = "AUTO",
              !.scheduled_at = ToUtc(slot)]

\* approve_post(post): the object after the assignments, before save().
ApprovedObject(obj, slot) ==
  [obj EXCEPT !.status = "APPROVED", !.schedule_mode = "AUTO",
              !.scheduled_at = ToUtc(slot), !.expires_at = NULL]

\* approve_post, reached from DraftPostAdmin (approve_view, act_approve): the
\* post is a draft.
ApprovePost(p) ==
  /\ p \in rows
  /\ posts[p].status = "DRAFT"
  /\ LET slot == next_auto_slot(channel, now, UsedSlots(posts, rows))
         obj == [ApprovedObject(posts[p], slot) EXCEPT !.dupe_score = compute_dupe(posts, rows)]
     IN posts' = [posts EXCEPT ![p] = SaveRow(posts[p], obj, channel, now, AllFields)]
  /\ UNCHANGED <<now, channel, db, tx, sv, gen, mdb, att, rs, ns, rows, queue, dw, pw, sent, raised>>

\* assign_auto_slot that sets the status and forgets the slot.
AutoSlotObject_NoSlot(obj, slot) == [obj EXCEPT !.status = "SCHEDULED"]

\* assign_auto_slot(post): the object after the assignments, before save().
AutoSlotObject(obj, slot) ==
  [obj EXCEPT !.scheduled_at = ToUtc(slot), !.status = "SCHEDULED"]

\* assign_auto_slot(post), reached from act_schedule: the action is offered
\* by DraftPostAdmin (drafts) and by ScheduledPostAdmin (Approved or Scheduled
\* posts with a scheduled_at).
AssignAutoSlot(p) ==
  /\ p \in rows
  /\ \/ posts[p].status = "DRAFT"
     \/ posts[p].status \in {"APPROVED", "SCHEDULED"} /\ posts[p].scheduled_at # NULL
  /\ posts[p].schedule_mode # "MANUAL"
  /\ LET slot == next_auto_slot(channel, now, UsedSlots(posts, rows))
         obj == [AutoSlotObject(posts[p], slot) EXCEPT !.dupe_score = compute_dupe(posts, rows)]
     IN posts' = [posts EXCEPT ![p] = SaveRow(posts[p], obj, channel, now, AllFields)]
  /\ UNCHANGED <<now, channel, db, tx, sv, gen, mdb, att, rs, ns, rows, queue, dw, pw, sent, raised>>

\* reschedule_view, AUTO mode, on a post of any status: schedule_mode is set
\* on the object, then assign_auto_slot runs.
RescheduleAuto(p) ==
  /\ p \in rows
  /\ LET slot == next_auto_slot(channel, now, UsedSlots(posts, rows))
         obj == [AutoSlotObject([posts[p] EXCEPT !.schedule_mode = "AUTO"], slot)
                   EXCEPT !.dupe_score = compute_dupe(posts, rows)]
     IN posts' = [posts EXCEPT ![p] = SaveRow(posts[p], obj, channel, now, AllFields)]
  /\ UNCHANGED <<now, channel, db, tx, sv, gen, mdb, att, rs, ns, rows, queue, dw, pw, sent, raised>>

\* reschedule_view, MANUAL mode, on a post of any status: RescheduleForm.clean
\* rejects an empty date, so scheduled_at is always given.
RescheduleManual(p, dt) ==
  /\ p \in rows
  /\ LET obj == [posts[p] EXCEPT !.schedule_mode = "MANUAL", !.scheduled_at = dt,
                                 !.status = "SCHEDULED",
                                 !.dupe_score = compute_dupe(posts, rows)]
     IN posts' = [posts EXCEPT ![p] = SaveRow(posts[p], obj, channel, now, AllFields)]
  /\ UNCHANGED <<now, channel, db, tx, sv, gen, mdb, att, rs, ns, rows, queue, dw, pw, sent, raised>>

\* ------------------------------------------------- publication audit trail
\* services.mark_publication_requested / _failed / _completed: the
\* "publication" entry of source_metadata.
mark_publication_requested(obj, t) ==
  [obj EXCEPT !.source_metadata =
     [status |-> "requested", error |-> "", requested_at |-> t, completed_at |-> NULL]]

mark_publication_failed(obj, reason) ==
  [obj EXCEPT !.source_metadata = [@ EXCEPT !.status = "failed", !.error = reason]]

mark_publication_completed(obj, t) ==
  [obj EXCEPT !.source_metadata =
     [@ EXCEPT !.status = "completed", !.error = "", !.completed_at = t]]

\* BasePostAdmin._prepare_for_immediate_publication: the object and the
\* columns it saves.
PreparedObject(obj, t) ==
  LET o1 == IF obj.scheduled_at = NULL \/ obj.scheduled_at > t
            THEN [obj EXCEPT !.scheduled_at = t] ELSE obj
      o2 == IF o1.status = "APPROVED" THEN [o1 EXCEPT !.status = "SCHEDULED"] ELSE o1
  IN mark_publication_requested(o2, t)

PreparedFields(obj, t) ==
  (IF obj.scheduled_at = NULL \/ obj.scheduled_at > t THEN {"scheduled_at"} ELSE {})
  \cup (IF obj.status = "APPROVED" THEN {"status"} ELSE {})
  \cup {"source_metadata"}

\* act_publish_now / publish_now_view of the admin: prepare, then
\* publish_post.delay(post.id).
PublishNow(p) ==
  /\ p \in rows
  /\ posts[p].status \in {"APPROVED", "SCHEDULED"}
  /\ queue[p] < MaxQueue
  /\ posts' = [posts EXCEPT ![p] =
        SaveRow(posts[p], PreparedObject(posts[p], now), channel, now,
                PreparedFields(posts[p], now))]
  /\ queue' = [queue EXCEPT ![p] = @ + 1]
  /\ UNCHANGED <<now, channel, db, tx, sv, gen, mdb, att, rs, ns, rows, dw, pw, sent, raised>>

\* ---------------------------------------------------------------- due-poll
\* Rows locked by the open transactions of the other task_publish_due
\* executions.
LockedByOthers(w) ==
  UNION {dw[v].due_ids : v \in {x \in DueWorkers \ {w} : dw[x].pc = "locked"}}

\* The queryset of task_publish_due without the scheduled_at__lte filter.
DueRows_AnyTime(tbl, ids, t) ==
  {p \in ids : tbl[p].status \in {"APPROVED", "SCHEDULED"}}

\* The queryset of task_publish_due evaluated at `t`.
DueRows(tbl, ids, t) ==
  {p \in ids : /\ tbl[p].status \in {"APPROVED", "SCHEDULED"}
               /\ tbl[p].scheduled_at # NULL
               /\ tbl[p].scheduled_at <= t}

\* The same query without select_for_update: no row is locked or skipped.
SelectForUpdate_NoLock(w, due) == due

\* list(queryset.select_for_update(...).values_list("id")): with skip_locked
\* the rows locked by another transaction are left out; without it the
\* statement waits for those transactions to end.
SelectForUpdate(w, due) ==
  IF db.skip_locked THEN due \ LockedByOthers(w) ELSE due

\* task_publish_due, first part: the transaction is opened and the due rows
\* are selected and locked.  A run that selects nothing ends at once.
DueSelect(w) ==
  /\ dw[w].pc = "idle"
  /\ \A p \in rows : queue[p] < MaxQueue
  /\ LET due == DueRows(posts, rows, now)
         ids == SelectForUpdate(w, due)
     IN /\ db.skip_locked \/ due \cap LockedByOthers(w) = {}
        /\ ids # {}
        /\ dw' = [dw EXCEPT ![w] = [pc |-> "locked", due_ids |-> ids, now |-> now]]
  /\ UNCHANGED <<now, channel, db, tx, sv, gen, mdb, att, rs, ns, rows, posts, queue, pw, sent, raised>>

\* task_publish_due, second part: the update to PUBLISHING and the commit,
\* which releases the row locks.
DueCommit(w) ==
  /\ dw[w].pc = "locked"
  /\ posts' = [p \in Posts |->
                 IF p \in dw[w].due_ids /\ p \in rows
                 THEN [posts[p] EXCEPT !.status = PUBLISHING]
                 ELSE posts[p]]
  /\ dw' = [dw EXCEPT ![w].pc = "committed"]
  /\ UNCHANGED <<now, channel, db, tx, sv, gen, mdb, att, rs, ns, rows, queue, pw, sent, raised>>

\* task_publish_due, last part: publish_post.delay for every selected id.
DueEnqueue(w) ==
  /\ dw[w].pc = "committed"
  /\ queue' = [p \in Posts |-> IF p \in dw[w].due_ids THEN queue[p] + 1 ELSE queue[p]]
  /\ dw' = [dw EXCEPT ![w] = IdleDue]
  /\ UNCHANGED <<now, channel, db, tx, sv, gen, mdb, att, rs, ns, rows, posts, pw, sent, raised>>

\* The clock: it advances by d minutes, up to `limit`.
Tick(d, limit) ==
  /\ now + d <= limit
  /\ now' = now + d
  /\ UNCHANGED <<channel, db, tx, sv, gen, mdb, att, rs, ns, rows, posts, queue, dw, pw, sent, raised>>

\* ---------------------------------------------------------------- dispatch
\* _bot_for without the strip(): a blank token counts as a token.
Strip_Identity(token) == token

\* services._bot_for(channel): None when the stripped token is empty.
Strip(token) == IF token \in {"", " "} THEN "" ELSE token

HasBot(ch) == Strip(ch.bot_token) # ""

\* publish_post without the already-published guard.
PublishGuard_NoPublishedCheck(obj) ==
  obj.status \in {"APPROVED", "SCHEDULED", PUBLISHING, "PUBLISHED"}

\* publish_post, the two status checks before anything is written: the
\* already-published guard and the allowed statuses.
PublishGuard(obj) ==
  /\ obj.status # "PUBLISHED"
  /\ obj.status \in {"APPROVED", "SCHEDULED", PUBLISHING}

\* publish_post, up to the hand-over to the event loop: the row is loaded;
\* unless the guard returns, the status is set to PUBLISHING and saved and
\* the publication request is recorded.
PublishStart(w, p) ==
  /\ pw[w].pc = "idle"
  /\ p \in rows
  /\ queue[p] > 0
  /\ queue' = [queue EXCEPT ![p] = @ - 1]
  /\ IF PublishGuard(posts[p])
     THEN LET o1 == [posts[p] EXCEPT !.status = PUBLISHING]
              r1 == IF posts[p].status # PUBLISHING
                    THEN SaveRow(posts[p], o1, channel, now, {"status"})
                    ELSE posts[p]
              o2 == mark_publication_requested(o1, now)
              r2 == SaveRow(r1, o2, channel, now, {"source_metadata"})
          IN /\ posts' = [posts EXCEPT ![p] = r2]
             /\ pw' = [pw EXCEPT ![w] = [pc |-> "dispatch", post_id |-> p, post |-> o2]]
     ELSE UNCHANGED <<posts, pw>>
  /\ UNCHANGED <<now, channel, db, tx, sv, gen, mdb, att, rs, ns, rows, dw, sent, raised>>

\* _restore_status_after_failure that always restores to SCHEDULED.
RestoreTarget_AlwaysScheduled(obj) == "SCHEDULED"

\* _restore_status_after_failure(post): the object and the row after it.
RestoreTarget(obj) == IF obj.scheduled_at # NULL THEN "SCHEDULED" ELSE "APPROVED"

\* _restore_status_after_failure that restores nothing.
RestoreStatus_None(row, obj, ch, t) == [obj |-> obj, row |-> row]

\* _restore_status_after_failure(post) on the loaded object and its row.
RestoreStatus(row, obj, ch, t) ==
  LET target == RestoreTarget(obj)
      o1 == [obj EXCEPT !.status = target]
  IN IF obj.status # target
     THEN [obj |-> PostSaveHook(o1, ch, t), row |-> SaveRow(row, o1, ch, t, {"status"})]
     ELSE [obj |-> obj, row |-> row]

\* The two recoverable failures of publish_post (Forbidden raised by the
\* dispatch, None returned for a missing bot): status restored, failure
\* recorded.
FailedRow(row, obj, ch, t, reason) ==
  LET r == RestoreStatus(row, obj, ch, t)
  IN SaveRow(r.row, mark_publication_failed(r.obj, reason), ch, t, {"source_metadata"})

\* publish_post after a successful dispatch: scheduled_at defaulted,
\* message_id, dupe_score and status set, full save, completion recorded.
PublishedRow(row, obj, ch, t, msg_id, dupe) ==
  LET o1 == [obj EXCEPT !.scheduled_at = IF @ = NULL THEN t ELSE @,
                        !.message_id = msg_id,
                        !.dupe_score = dupe,
                        !.status = "PUBLISHED"]
      r1 == SaveRow(row, o1, ch, t, AllFields)
  IN SaveRow(r1, mark_publication_completed(o1, t), ch, t, {"source_metadata"})

\* What asyncio.run(_publish_async(...)) can end with when a bot exists: the
\* messages are sent, Forbidden is raised, or another exception is raised
\* (a network or platform error, a cached file missing at open()).
Outcomes == {"ok", "forbidden", "error"}

\* publish_post from the dispatch to its end.
PublishFinish(w, outcome) ==
  /\ pw[w].pc = "dispatch"
  /\ LET p == pw[w].post_id
         obj == pw[w].post
     IN IF ~HasBot(channel)
        THEN /\ outcome = "ok"
             /\ posts' = [posts EXCEPT ![p] = FailedRow(posts[p], obj, channel, now, "missing_bot")]
             /\ UNCHANGED <<sent, raised>>
        ELSE CASE outcome = "ok" ->
                    /\ sent[p] < MaxSent
                    /\ sent' = [sent EXCEPT ![p] = @ + 1]
                    /\ posts' = [posts EXCEPT ![p] =
                                   PublishedRow(posts[p], obj, channel, now, sent[p] + 1,
                                                compute_dupe(posts, rows))]
                    /\ UNCHANGED raised
               [] outcome = "forbidden" ->
                    /\ posts' = [posts EXCEPT ![p] =
                                   FailedRow(posts[p], obj, channel, now, "forbidden")]
                    /\ UNCHANGED <<sent, raised>>
               [] OTHER ->
                    /\ raised' = raised \cup {p}
                    /\ UNCHANGED <<posts, sent>>
  /\ pw' = [pw EXCEPT ![w] = IdlePub]
  /\ UNCHANGED <<now, channel, db, tx, sv, gen, mdb, att, rs, ns, rows, queue, dw>>

\* ------------------------------------------------------- the pipeline
TypeOK ==
  /\ now \in Int
  /\ rows \subseteq Posts
  /\ \A p \in Posts : posts[p].status \in Status \cup {PUBLISHING}
  /\ \A p \in Posts : queue[p] \in 0..(MaxQueue + Cardinality(DueWorkers))
  /\ \A p \in Posts : sent[p] \in 0..MaxSent
  /\ raised \subseteq Posts

\* Local 14:05 of day 0.
StartNow == ToUtc(14 * MinutesPerHour + 5)

\* A draft as create_post_from_payload stores it at time t.
NewDraft(ch, t) == PostSaveHook(NoRow, ch, t)

\* No publication task is running and nothing is queued.
InitQuiet ==
  /\ dw = [w \in DueWorkers |-> IdleDue]
  /\ pw = [w \in PubWorkers |-> IdlePub]
  /\ queue = [p \in Posts |-> 0]
  /\ sent = [p \in Posts |-> 0]
  /\ raised = {}
  /\ ns = IdleSlot
  /\ tx = IdleTx
  /\ sv = [c \in Callers |-> IdleCall]

InitIdle ==
  /\ InitQuiet
  /\ gen = IdleGen
  /\ mdb = EmptyMedia
  /\ att = IdleAttach
  /\ rs = IdleResolve

Init ==
  /\ now = StartNow
  /\ \E tok \in {" ", "123"} : channel = [DefaultChannel EXCEPT !.bot_token = tok]
  /\ db = [skip_locked |-> TRUE]
  /\ rows = 1..PipelinePosts
  /\ posts = [p \in Posts |-> IF p \in rows THEN NewDraft(channel, now) ELSE NoRow]
  /\ InitIdle

Spec ==
  /\ Init
  /\ [][\/ \E p \in Posts : ApprovePost(p)
        \/ \E p \in Posts : AssignAutoSlot(p)
        \/ \E p \in Posts : RescheduleAuto(p)
        \/ \E p \in Posts, dt \in {StartNow + 10} : RescheduleManual(p, dt)
        \/ \E p \in Posts : PublishNow(p)
        \/ \E w \in {"d1"} : DueSelect(w)
        \/ \E w \in {"d1"} : DueCommit(w)
        \/ \E w \in {"d1"} : DueEnqueue(w)
        \/ \E w \in PubWorkers, p \in Posts : PublishStart(w, p)
        \/ \E w \in PubWorkers, o \in Outcomes : PublishFinish(w, o)
        \/ Tick(30, StartNow + MaxAdvance)]_vars

\* ------------------------------------------- the due-poll race on its own
\* Rows as they can lie in the table when task_publish_due runs: any status
\* the poll has to tell apart, with no schedule, a past one or a future one.
InitDuePoll ==
  /\ now = StartNow
  /\ channel = DefaultChannel
  /\ db \in [skip_locked : BOOLEAN]
  /\ rows = Posts
  /\ posts \in [Posts ->
       {[NoRow EXCEPT !.status = st, !.scheduled_at = sa] :
          st \in {"DRAFT", "APPROVED", "SCHEDULED", "PUBLISHED"},
          sa \in {NULL, StartNow - 5, StartNow + 20}}]
  /\ InitIdle

SpecDuePoll ==
  /\ InitDuePoll
  /\ [][\/ \E w \in DueWorkers : DueSelect(w)
        \/ \E w \in DueWorkers : DueCommit(w)
        \/ \E w \in DueWorkers : DueEnqueue(w)
        \/ Tick(30, StartNow + MaxAdvance)]_vars

\* ------------------------------------------- publish_post called directly
\* Rows as Post.objects.create stores them (the tests create posts in any
\* status, with or without scheduled_at).
DispatchRows ==
  {PostSaveHook([NoRow EXCEPT !.status = st, !.scheduled_at = sa], DefaultChannel, StartNow) :
     st \in Status \cup {PUBLISHING}, sa \in {NULL, StartNow - 5}}

\* tasks.publish_post(post.id): one more call waits to run.
InvokePublish(p) ==
  /\ p \in rows
  /\ queue[p] < MaxQueue
  /\ queue' = [queue EXCEPT ![p] = @ + 1]
  /\ UNCHANGED <<now, channel, db, tx, sv, gen, mdb, att, rs, ns, rows, posts, dw, pw, sent, raised>>

InitDispatch ==
  /\ now = StartNow
  /\ \E tok \in BotTokens : channel = [DefaultChannel EXCEPT !.bot_token = tok]
  /\ db = [skip_locked |-> TRUE]
  /\ rows = Posts
  /\ posts \in [Posts -> DispatchRows]
  /\ InitIdle

SpecDispatch ==
  /\ InitDispatch
  /\ [][\/ \E p \in Posts : InvokePublish(p)
        \/ \E p \in Posts : PublishStart("p1", p)
        \/ \E o \in Outcomes : PublishFinish("p1", o)]_vars

\* ----------------------------------------------------- Post.save on its own
SaveTimes == {NULL, StartNow - 5, StartNow + 20}

\* The admin's PostForm (fields status, scheduled_at, schedule_mode) added or
\* changed and saved: Post.objects.create / form.save() end in Post.save().
AdminSavePost(p, st, sa, mode) ==
  /\ LET base == IF p \in rows THEN posts[p] ELSE NoRow
         obj == [base EXCEPT !.status = st, !.scheduled_at = sa, !.schedule_mode = mode]
     IN posts' = [posts EXCEPT ![p] = SaveRow(base, obj, channel, now, AllFields)]
  /\ rows' = rows \cup {p}
  /\ UNCHANGED <<now, channel, db, tx, sv, gen, mdb, att, rs, ns, queue, dw, pw, sent, raised>>

\* post.status = st; post.save(update_fields=["status"]) on a loaded row.
SaveStatusOnly(p, st) ==
  /\ p \in rows
  /\ posts' = [posts EXCEPT ![p] =
        SaveRow(posts[p], [posts[p] EXCEPT !.status = st], channel, now, {"status"})]
  /\ UNCHANGED <<now, channel, db, tx, sv, gen, mdb, att, rs, ns, rows, queue, dw, pw, sent, raised>>

InitSave ==
  /\ now = StartNow
  /\ channel = DefaultChannel
  /\ db = [skip_locked |-> TRUE]
  /\ rows = {}
  /\ posts = [p \in Posts |-> NoRow]
  /\ InitIdle

SpecSave ==
  /\ InitSave
  /\ [][\/ \E p \in Posts, st \in Status \cup {PUBLISHING}, sa \in SaveTimes, m \in {"AUTO", "MANUAL"} :
              AdminSavePost(p, st, sa, m)
        \/ \E p \in Posts, st \in {"APPROVED", "SCHEDULED", PUBLISHING} : SaveStatusOnly(p, st)]_vars

\* ----------------------------------------------- the scheduler on its own
\* A channel whose window starts at midnight.
NightChannel == [DefaultChannel EXCEPT !.slot_start_hour = 0]

SlotChannels == {DefaultChannel, NightChannel}

\* Local 14:05 of day 0, local 23:20 of day 0 and local 01:40 of the day of
\* the spring transition.
SlotNows ==
  {StartNow, ToUtc(23 * MinutesPerHour + 20), ToUtc(DstDay * Day + MinutesPerHour + 40)}

InitSlots ==
  /\ now \in SlotNows
  /\ channel \in SlotChannels
  /\ db = [skip_locked |-> TRUE]
  /\ rows = Posts
  /\ posts = [p \in Posts |-> NewDraft(channel, now)]
  /\ InitIdle

SpecSlots ==
  /\ InitSlots
  /\ [][\/ \E p \in Posts : ApprovePost(p)
        \/ \E p \in Posts : AssignAutoSlot(p)
        \/ Tick(SlotStepDefault, IF now \in SlotNows THEN now + SlotStepDefault ELSE now)]_vars

\* ------------------------------------------- next_auto_slot pass by pass
OneSlotChannel == [DefaultChannel EXCEPT !.slot_end_hour = 6, !.slot_end_minute = 0]

NextSlotCall ==
  \/ SlotCall
  \/ SlotPass
  \/ SlotReturn

\* now: local 05:50, 14:05 and 23:20 of day 0 and local 01:40 of the day of
\* the spring transition.
\* Channel configurations: the default; windows of two slots and of one slot
\* a day; steps that do not divide an hour and that exceed it; windows that
\* contain the hour skipped in spring; a window whose end precedes its start.
\* scheduled_at of the posts that hold a claim: 06:00, 06:30 and 14:30 of day
\* 0, 06:00 of day 1, and the instant stored for a slot at 02:00 of the
\* transition day.
InitSlotCall ==
  /\ now \in {ToUtc(5 * MinutesPerHour + 50), StartNow, ToUtc(23 * MinutesPerHour + 20),
              ToUtc(DstDay * Day + MinutesPerHour + 40)}
  /\ channel \in {DefaultChannel,
                  [DefaultChannel EXCEPT !.slot_end_hour = 6, !.slot_end_minute = 30],
                  OneSlotChannel,
                  [DefaultChannel EXCEPT !.slot_step_min = 45],
                  [DefaultChannel EXCEPT !.slot_step_min = 90],
                  NightChannel,
                  [DefaultChannel EXCEPT !.slot_start_hour = 2],
                  [DefaultChannel EXCEPT !.slot_start_hour = 22, !.slot_end_hour = 6,
                                         !.slot_end_minute = 0]}
  /\ db = [skip_locked |-> TRUE]
  /\ rows = Posts
  /\ posts \in [Posts ->
       {NoRow} \cup {[NoRow EXCEPT !.status = "SCHEDULED", !.scheduled_at = sa] :
                       sa \in {ToUtc(6 * MinutesPerHour), ToUtc(6 * MinutesPerHour + 30),
                               ToUtc(14 * MinutesPerHour + 30), ToUtc(Day + 6 * MinutesPerHour),
                               ToUtc(DstDay * Day + 2 * MinutesPerHour)}}]
  /\ InitIdle

SpecSlotCall ==
  /\ InitSlotCall
  /\ [][NextSlotCall]_vars

\* The call is not suspended: a thread that runs next_auto_slot keeps running.
SpecSlotCallFair == SpecSlotCall /\ WF_vars(NextSlotCall)

\* ----------------------------------- due-poll and dispatch, no operator
\* Scheduled posts, due now or in twenty minutes, as save() stores them.
\* The beat schedule starts task_publish_due every minute and a started run
\* runs to its end.
InitRetry ==
  /\ now = StartNow
  /\ \E tok \in BotTokens : channel = [DefaultChannel EXCEPT !.bot_token = tok]
  /\ db = [skip_locked |-> TRUE]
  /\ rows = Posts
  /\ posts \in [Posts ->
       {PostSaveHook([NoRow EXCEPT !.status = "SCHEDULED", !.scheduled_at = sa],
                     DefaultChannel, StartNow) : sa \in {StartNow - 5, StartNow + 20}}]
  /\ InitIdle

SpecRetry ==
  /\ InitRetry
  /\ [][\/ DueSelect("d1")
        \/ DueCommit("d1")
        \/ DueEnqueue("d1")
        \/ \E p \in Posts : PublishStart("p1", p)
        \/ \E o \in Outcomes : PublishFinish("p1", o)
        \/ Tick(30, StartNow + MaxAdvance)]_vars
  /\ WF_vars(DueSelect("d1")) /\ WF_vars(DueCommit("d1")) /\ WF_vars(DueEnqueue("d1"))

\* ------------------------------------------------------------ housekeeping
\* The same query with the status filter left out.
ExpiredDrafts_AnyStatus(tbl, ids, t) ==
  {p \in ids : tbl[p].expires_at # NULL /\ tbl[p].expires_at < t}

\* Post.objects.filter(status="DRAFT", expires_at__lt=now).
ExpiredDrafts(tbl, ids, t) ==
  {p \in ids : /\ tbl[p].status = "DRAFT"
               /\ tbl[p].expires_at # NULL
               /\ tbl[p].expires_at < t}

\* task_housekeeping: the expired drafts are deleted.  (purge_cache, which it
\* calls next, writes PostMedia rows and cache files only.)
Housekeeping ==
  /\ LET gone == ExpiredDrafts(posts, rows, now)
     IN /\ rows' = rows \ gone
        /\ posts' = [p \in Posts |-> IF p \in gone THEN NoRow ELSE posts[p]]
  /\ UNCHANGED <<now, channel, db, tx, sv, gen, mdb, att, rs, ns, queue, dw, pw, sent, raised>>

\* Local 14:05 of day 40.
HkNow == 40 * Day + StartNow

\* Rows as the housekeeping tests create them: drafts without expiry, expired
\* a day ago or expiring in half an hour; an Approved post; Scheduled and
\* Publishing posts two or three hours or a quarter of an hour late (one of
\* them scheduled from a draft and still carrying its expired expires_at);
\* Published posts published 31 and 2 days ago.
HkRows ==
  {[NoRow EXCEPT !.expires_at = ex] : ex \in {NULL, HkNow - Day, HkNow + 30}}
  \cup {[NoRow EXCEPT !.status = "APPROVED"]}
  \cup {[NoRow EXCEPT !.status = st, !.scheduled_at = sa] :
          st \in {"SCHEDULED", PUBLISHING}, sa \in {HkNow - 180, HkNow - 120, HkNow - 15}}
  \cup {[NoRow EXCEPT !.status = "SCHEDULED", !.scheduled_at = HkNow - 15,
                      !.expires_at = HkNow - Day]}
  \cup {[NoRow EXCEPT !.status = "PUBLISHED", !.scheduled_at = pa, !.published_at = pa] :
          pa \in {HkNow - (PublishedPostTtlDays + 1) * Day, HkNow - 2 * Day}}

InitHousekeeping ==
  /\ now = HkNow
  /\ channel = DefaultChannel
  /\ db = [skip_locked |-> TRUE]
  /\ rows = Posts
  /\ posts \in [Posts -> HkRows]
  /\ InitIdle

SpecHousekeeping ==
  /\ InitHousekeeping
  /\ [][\/ Housekeeping
        \/ Tick(Day, HkNow + Day)]_vars

\* -------------------------------------------------------- draft generation
\* task_gpt_generate_for_channel(channel_id, count) is entered.
GenCall(count) ==
  /\ gen.pc = "idle"
  /\ gen' = [gen EXCEPT !.pc = "loop", !.count = count, !.i = 0, !.added = 0,
                        !.before = gen.drafts]
  /\ UNCHANGED <<now, channel, db, tx, sv, mdb, att, rs, ns, rows, posts, queue, dw, pw, sent, raised>>

\* One pass of "for _ in range(count)": gpt_new_draft answers None (the task
\* stops), a payload without text (create_post_from_payload raises
\* ValueError) or a payload from which a Draft is created.
GenPass(answer) ==
  /\ gen.pc = "loop"
  /\ gen.i < gen.count
  /\ gen' = IF answer = "none" THEN [gen EXCEPT !.pc = "done"]
            ELSE IF answer = "no_text" THEN [gen EXCEPT !.pc = "raised"]
            ELSE [gen EXCEPT !.i = gen.i + 1, !.added = gen.added + 1,
                             !.drafts = gen.drafts + 1]
  /\ UNCHANGED <<now, channel, db, tx, sv, mdb, att, rs, ns, rows, posts, queue, dw, pw, sent, raised>>

\* range(count) is exhausted: return added.
GenReturn ==
  /\ gen.pc = "loop"
  /\ gen.i = gen.count
  /\ gen' = [gen EXCEPT !.pc = "done"]
  /\ UNCHANGED <<now, channel, db, tx, sv, mdb, att, rs, ns, rows, posts, queue, dw, pw, sent, raised>>

\* A channel with draft_target_count 0..MaxDraftTarget that holds up to one
\* Draft more than its target.
InitGenerate ==
  /\ now = StartNow
  /\ channel = DefaultChannel
  /\ db = [skip_locked |-> TRUE]
  /\ rows = {}
  /\ posts = [p \in Posts |-> NoRow]
  /\ InitQuiet
  /\ mdb = EmptyMedia
  /\ att = IdleAttach
  /\ rs = IdleResolve
  /\ \E target \in 0..MaxDraftTarget, drafts \in 0..(MaxDraftTarget + 1) :
       gen = [IdleGen EXCEPT !.target = target, !.drafts = drafts, !.before = drafts]

SpecGenerate ==
  /\ InitGenerate
  /\ [][\/ \E count \in 1..MaxGenCount : GenCall(count)
        \/ \E answer \in {"payload", "none", "no_text"} : GenPass(answer)
        \/ GenReturn]_vars

\* --------------------------------------------------------- media resolution
\* The URLs that occur: a Telegram permalink (an HTML page), a tweet
\* permalink, a direct asset address, the assets the tweet page and the
\* scraper can yield, the resolver service's download address and the file
\* the built-in Telegram resolver stores.
TgPermalink == "https://t.me/source/456"
TweetUrl == "https://x.com/user/status/1976"
AssetUrl == "https://cdn.example.com/a.jpg"
PageAsset == "https://pbs.twimg.com/media/page.jpg"
StalkerAsset == "https://pbs.twimg.com/media/stalker.jpg?name=large"
ServiceAsset == "https://resolver.example.com/files/1.jpg"
TgFile == "file:///media/resolved/telegram/456.jpg"
ExtraFile == "file:///media/resolved/telegram/457.jpg"
VideoUrl == "https://example.com/video.mp4"
PlainUrl == "https://example.com/download"
StalkerUrl == "https://www.twstalker.com/user/status/1976"
ServiceUrl == "https://resolver.example.com/resolve"

\* _looks_like_asset: an http(s) address whose path ends in a media extension.
LooksLikeAsset(url) == url \in {AssetUrl, PageAsset, StalkerAsset, ServiceAsset, VideoUrl}

\* urlparse(url).hostname ends with twitter.com or x.com.
IsTwitterHost(url) == url = TweetUrl

\* url.startswith(("https://t.me/", "http://t.me/")).
IsTelegramLink(url) == url = TgPermalink

\* _reference_fallback_url: the first non-empty of the reference's address keys.
ReferenceFallbackUrl(reference) ==
  IF reference.direct_url # "" THEN reference.direct_url
  ELSE IF reference.tg_post_url # "" THEN reference.tg_post_url
  ELSE reference.tweet_url

\* _resolve_media_via_telegram: only a downloaded file counts; not configured,
\* not found, any other exception and an empty result all give "".
ResolveViaTelegram(reference, world) ==
  IF reference.tg_post_url = "" THEN [url |-> "", calls |-> <<>>]
  ELSE [url |-> IF world.telegram = "file" THEN TgFile ELSE "",
        calls |-> <<"telegram">>]

\* _resolve_with_builtin_resolver.
ResolveWithBuiltin(resolver, reference, world) ==
  IF resolver = "telegram" THEN ResolveViaTelegram(reference, world)
  ELSE [url |-> "", calls |-> <<>>]

\* _resolve_media_via_twitter_html: GET of the permalink page.
ResolveViaTwitterHtml(url, world) ==
  [url |-> IF world.page = "asset" THEN PageAsset ELSE "", calls |-> <<url>>]

\* _resolve_media_via_twstalker: GET of the primary scraper; an HTTP status
\* error or a network error gives "".
ResolveViaTwstalker(world) ==
  [url |-> IF world.stalker = "asset" THEN StalkerAsset ELSE "", calls |-> <<StalkerUrl>>]

\* _resolve_media_via_html_fallback.
ResolveViaHtmlFallback(url, world) ==
  IF IsTwitterHost(url)
    THEN LET page == ResolveViaTwitterHtml(url, world)
         IN IF page.url # "" THEN page
            ELSE LET tw == ResolveViaTwstalker(world)
                 IN [url |-> tw.url, calls |-> page.calls \o tw.calls]
    ELSE [url |-> "", calls |-> <<>>]

\* The POST to MEDIA_RESOLVER_URL/resolve/<resolver>.
ResolveViaService(world) ==
  [url |-> IF world.service = "url" THEN ServiceAsset ELSE "", calls |-> <<ServiceUrl>>]

\* _resolve_media_reference that takes a direct asset address before any
\* resolver is asked.
ResolveMediaReference_DirectFirst(resolver, reference, world) ==
  IF resolver = "" \/ reference = NoReference THEN [url |-> "", calls |-> <<>>]
  ELSE
    LET fallback_url == ReferenceFallbackUrl(reference)
        builtin == ResolveWithBuiltin(resolver, reference, world)
    IN IF fallback_url # "" /\ LooksLikeAsset(fallback_url)
         THEN [url |-> fallback_url, calls |-> <<>>]
       ELSE IF builtin.url # "" THEN builtin
       ELSE IF world.service = "unset"
         THEN IF fallback_url # ""
                THEN LET html == ResolveViaHtmlFallback(fallback_url, world)
                         calls == builtin.calls \o html.calls
                     IN IF html.url # "" THEN [url |-> html.url, calls |-> calls]
                        ELSE IF resolver = "telegram" /\ IsTelegramLink(fallback_url)
                          THEN [url |-> fallback_url, calls |-> calls]
                        ELSE [url |-> "", calls |-> calls]
              ELSE [url |-> "", calls |-> builtin.calls]
         ELSE LET svc == ResolveViaService(world)
              IN [url |-> svc.url, calls |-> builtin.calls \o svc.calls]

\* _resolve_media_reference.
ResolveMediaReference(resolver, reference, world) ==
  IF resolver = "" \/ reference = NoReference THEN [url |-> "", calls |-> <<>>]
  ELSE
    LET fallback_url == ReferenceFallbackUrl(reference)
        builtin == ResolveWithBuiltin(resolver, reference, world)
    IN IF builtin.url # "" THEN builtin
       ELSE IF world.service = "unset"
         THEN IF fallback_url # "" /\ LooksLikeAsset(fallback_url)
                THEN [url |-> fallback_url, calls |-> builtin.calls]
              ELSE IF fallback_url # ""
                THEN LET html == ResolveViaHtmlFallback(fallback_url, world)
                         calls == builtin.calls \o html.calls
                     IN IF html.url # "" THEN [url |-> html.url, calls |-> calls]
                        ELSE IF resolver = "telegram" /\ IsTelegramLink(fallback_url)
                          THEN [url |-> fallback_url, calls |-> calls]
                        ELSE [url |-> "", calls |-> calls]
              ELSE [url |-> "", calls |-> builtin.calls]
         ELSE LET svc == ResolveViaService(world)
              IN [url |-> svc.url, calls |-> builtin.calls \o svc.calls]

\* The call is made and returns.
ResolveCall ==
  /\ rs.pc = "idle"
  /\ LET r == ResolveMediaReference(rs.resolver, rs.reference, rs.world)
     IN rs' = [rs EXCEPT !.pc = "done", !.url = r.url, !.calls = r.calls]
  /\ UNCHANGED <<now, channel, db, tx, sv, gen, mdb, att, ns, rows, posts, queue, dw, pw, sent, raised>>

\* What the outside world answers: the built-in Telegram download, the
\* resolver service (unset = MEDIA_RESOLVER_URL empty), the tweet page, the
\* primary scraper and the scraping mirror.
InitResolve ==
  /\ now = StartNow
  /\ channel = DefaultChannel
  /\ db = [skip_locked |-> TRUE]
  /\ rows = {}
  /\ posts = [p \in Posts |-> NoRow]
  /\ InitQuiet
  /\ gen = IdleGen
  /\ mdb = EmptyMedia
  /\ att = IdleAttach
  /\ \E resolver \in {"", "telegram", "twitter"},
        reference \in [direct_url : {"", AssetUrl}, tg_post_url : {"", TgPermalink},
                       tweet_url : {"", TweetUrl}],
        world \in [telegram : {"not_configured", "not_found", "error", "empty", "file"},
                   service : {"unset", "http_error", "network_error", "empty", "url"},
                   page : {"asset", "none", "http_error"},
                   stalker : {"asset", "none", "forbidden", "network_error"},
                   mirror : {"asset", "none"}] :
       rs = [IdleResolve EXCEPT !.resolver = resolver, !.reference = reference, !.world = world]

SpecResolve ==
  /\ InitResolve
  /\ [][ResolveCall]_vars

\* -------------------------------------------------------------- media cache
\* parsed.scheme in ("http", "https"); every other source is a local file.
IsHttp(url) == LooksLikeAsset(url) \/ url \in {TgPermalink, TweetUrl, PlainUrl}

\* os.path.splitext(urlparse(url).path)[-1].lower().
ExtOf(url) ==
  IF url \in {AssetUrl, PageAsset, StalkerAsset, ServiceAsset, TgFile, ExtraFile} THEN ".jpg"
  ELSE IF url = VideoUrl THEN ".mp4"
  ELSE ""

\* mimetypes.guess_extension(content_type).
GuessExtension(mime) ==
  IF mime = "image/jpeg" THEN ".jpg"
  ELSE IF mime = "image/gif" THEN ".gif"
  ELSE IF mime = "video/mp4" THEN ".mp4"
  ELSE IF mime = "text/html" THEN ".html"
  ELSE ""

\* _detect_media_type: the content type decides, the extension only when the
\* content type says nothing; "" stands for None.
DetectMediaType(ext, mime) ==
  IF mime = "image/gif" THEN "doc"
  ELSE IF mime = "image/jpeg" THEN "photo"
  ELSE IF mime = "video/mp4" THEN "video"
  ELSE IF ext = ".gif" THEN "doc"
  ELSE IF ext = ".jpg" THEN "photo"
  ELSE IF ext = ".mp4" THEN "video"
  ELSE ""

\* detected_type as cache_media computes it: on the HTTP branch from the
\* address's extension (guessed from the content type when the address has
\* none) and the content-type header, on the local branch from the file name.
DetectedType(url, mime) ==
  IF IsHttp(url)
    THEN DetectMediaType(IF ExtOf(url) # "" THEN ExtOf(url) ELSE GuessExtension(mime), mime)
    ELSE DetectMediaType(ExtOf(url), "")

\* MEDIA_ROOT/cache/<pm.id><ext>.
CacheFile(pm) == <<"cache", pm.id>>

\* What can happen to a download: the kinds of failure of the HTTP branch
\* and of the local branch, a failing write, an exception cache_media does
\* not catch, or success; and the content-type header of the response.
HttpFailures == {"http_error", "network_error", "empty_body"}
LocalFailures == {"missing_file", "unreadable"}
CacheFailures == HttpFailures \cup LocalFailures \cup {"write_error"}
CacheOutcomes ==
  [kind : CacheFailures \cup {"raise", "ok"},
   mime : {"", "image/jpeg", "image/gif", "video/mp4", "text/html"}]

\* The failure can occur on the branch the source address selects.
Applicable(url, o) ==
  /\ o.kind \in HttpFailures => IsHttp(url)
  /\ o.kind \in LocalFailures => ~IsHttp(url)

\* A failing download forgets the earlier cache_path.
CacheMedia_FailureClears(pm, files, o, t) ==
  IF pm.cache_path # NoPath /\ pm.cache_path \in files
    THEN [pm |-> pm, path |-> pm.cache_path, files |-> files, requests |-> 0, raised |-> FALSE]
  ELSE IF pm.source_url = ""
    THEN [pm |-> pm, path |-> NoPath, files |-> files, requests |-> 0, raised |-> FALSE]
  ELSE LET requests == IF IsHttp(pm.source_url) THEN 1 ELSE 0
       IN IF o.kind = "raise"
            THEN [pm |-> pm, path |-> NoPath, files |-> files, requests |-> requests, raised |-> TRUE]
          ELSE IF o.kind \in CacheFailures
            THEN [pm |-> [pm EXCEPT !.cache_path = NoPath], path |-> NoPath, files |-> files,
                  requests |-> requests, raised |-> FALSE]
          ELSE LET detected == DetectedType(pm.source_url, o.mime)
                   changed == detected # "" /\ detected # pm.type
               IN [pm |-> [pm EXCEPT !.cache_path = CacheFile(pm),
                                     !.expires_at = t + MediaCacheTtlDays * Day,
                                     !.type = IF changed THEN detected ELSE pm.type,
                                     !.detected_type = IF changed THEN detected ELSE pm.detected_type],
                   path |-> CacheFile(pm), files |-> files \cup {CacheFile(pm)},
                   requests |-> requests, raised |-> FALSE]

\* The declared type is kept whatever the content shows.
CacheMedia_KeepsType(pm, files, o, t) ==
  IF pm.cache_path # NoPath /\ pm.cache_path \in files
    THEN [pm |-> pm, path |-> pm.cache_path, files |-> files, requests |-> 0, raised |-> FALSE]
  ELSE IF pm.source_url = ""
    THEN [pm |-> pm, path |-> NoPath, files |-> files, requests |-> 0, raised |-> FALSE]
  ELSE LET requests == IF IsHttp(pm.source_url) THEN 1 ELSE 0
       IN IF o.kind = "raise"
            THEN [pm |-> pm, path |-> NoPath, files |-> files, requests |-> requests, raised |-> TRUE]
          ELSE IF o.kind \in CacheFailures
            THEN [pm |-> pm, path |-> pm.cache_path, files |-> files,
                  requests |-> requests, raised |-> FALSE]
          ELSE LET detected == DetectedType(pm.source_url, o.mime)
                   changed == detected # "" /\ detected # pm.type
               IN [pm |-> [pm EXCEPT !.cache_path = CacheFile(pm),
                                     !.expires_at = t + MediaCacheTtlDays * Day,
                                     !.type = pm.type,
                                     !.detected_type = IF changed THEN detected ELSE pm.detected_type],
                   path |-> CacheFile(pm), files |-> files \cup {CacheFile(pm)},
                   requests |-> requests, raised |-> FALSE]

\* The download is made even when the cached file exists.
CacheMedia_AlwaysFetch(pm, files, o, t) ==
  IF pm.source_url = ""
    THEN [pm |-> pm, path |-> NoPath, files |-> files, requests |-> 0, raised |-> FALSE]
  ELSE LET requests == IF IsHttp(pm.source_url) THEN 1 ELSE 0
       IN IF o.kind = "raise"
            THEN [pm |-> pm, path |-> NoPath, files |-> files, requests |-> requests, raised |-> TRUE]
          ELSE IF o.kind \in CacheFailures
            THEN [pm |-> pm, path |-> pm.cache_path, files |-> files,
                  requests |-> requests, raised |-> FALSE]
          ELSE LET detected == DetectedType(pm.source_url, o.mime)
                   changed == detected # "" /\ detected # pm.type
               IN [pm |-> [pm EXCEPT !.cache_path = CacheFile(pm),
                                     !.expires_at = t + MediaCacheTtlDays * Day,
                                     !.type = IF changed THEN detected ELSE pm.type,
                                     !.detected_type = IF changed THEN detected ELSE pm.detected_type],
                   path |-> CacheFile(pm), files |-> files \cup {CacheFile(pm)},
                   requests |-> requests, raised |-> FALSE]

\* cache_media(pm): the saved row, the returned path, the files on disk, the
\* number of network requests made and whether an exception escaped.
CacheMedia(pm, files, o, t) ==
  IF pm.cache_path # NoPath /\ pm.cache_path \in files
    THEN [pm |-> pm, path |-> pm.cache_path, files |-> files, requests |-> 0, raised |-> FALSE]
  ELSE IF pm.source_url = ""
    THEN [pm |-> pm, path |-> NoPath, files |-> files, requests |-> 0, raised |-> FALSE]
  ELSE LET requests == IF IsHttp(pm.source_url) THEN 1 ELSE 0
       IN IF o.kind = "raise"
            THEN [pm |-> pm, path |-> NoPath, files |-> files, requests |-> requests, raised |-> TRUE]
          ELSE IF o.kind \in CacheFailures
            THEN [pm |-> pm, path |-> pm.cache_path, files |-> files,
                  requests |-> requests, raised |-> FALSE]
          ELSE LET detected == DetectedType(pm.source_url, o.mime)
                   changed == detected # "" /\ detected # pm.type
               IN [pm |-> [pm EXCEPT !.cache_path = CacheFile(pm),
                                     !.expires_at = t + MediaCacheTtlDays * Day,
                                     !.type = IF changed THEN detected ELSE pm.type,
                                     !.detected_type = IF changed THEN detected ELSE pm.detected_type],
                   path |-> CacheFile(pm), files |-> files \cup {CacheFile(pm)},
                   requests |-> requests, raised |-> FALSE]

\* cache_media is called on the stored attachment pm while the world answers o.
CacheCall(pm, o) ==
  /\ pm \in mdb.rows
  /\ mdb.calls < MaxCacheCalls
  /\ Applicable(pm.source_url, o)
  /\ LET r == CacheMedia(pm, mdb.files, o, now)
     IN mdb' = [mdb EXCEPT !.rows = (mdb.rows \ {pm}) \cup {r.pm},
                           !.files = r.files,
                           !.requests = mdb.requests + r.requests,
                           !.calls = mdb.calls + 1,
                           !.returned = r.path]
  /\ UNCHANGED <<now, channel, db, tx, sv, gen, att, rs, ns, rows, posts, queue, dw, pw, sent, raised>>

\* One attachment as the tests build it: a remote asset, a local file or no
\* source at all; never cached, cached with the file in place, or cached
\* with the file gone from the disk.
CacheStarts ==
  {[pm |-> [NoMedia EXCEPT !.id = 1, !.source_url = url, !.type = ty, !.cache_path = cp,
                           !.expires_at = IF cp = NoPath THEN NULL ELSE StartNow + Day],
    files |-> fs] :
     url \in {"", AssetUrl, VideoUrl, PlainUrl, TgFile}, ty \in {"photo", "video"},
     cp \in {NoPath, <<"cache", 1>>}, fs \in {{}, {<<"cache", 1>>}}}

InitCache ==
  /\ now = StartNow
  /\ channel = DefaultChannel
  /\ db = [skip_locked |-> TRUE]
  /\ rows = {}
  /\ posts = [p \in Posts |-> NoRow]
  /\ InitQuiet
  /\ gen = IdleGen
  /\ att = IdleAttach
  /\ rs = IdleResolve
  /\ \E st \in CacheStarts :
       mdb = [EmptyMedia EXCEPT !.rows = {st.pm}, !.next_id = 2, !.files = st.files]

SpecCache ==
  /\ InitCache
  /\ [][\/ \E pm \in mdb.rows, o \in CacheOutcomes : CacheCall(pm, o)
        \/ Tick(Day, StartNow + Day)]_vars

\* --------------------------------------------------------- media attachment
TgPermalink2 == "https://t.me/uniannet/109639"
TgLinks == {TgPermalink, TgPermalink2}

\* How the download of a descriptor's medium ends, as cache_media sees it.
CacheOutcomeFor(url, c) ==
  IF c = "empty"
    THEN [kind |-> IF IsHttp(url) THEN "http_error" ELSE "missing_file", mime |-> ""]
    ELSE [kind |-> c, mime |-> ""]

\* telegram_counts: how many descriptors of the payload carry each tg_post_url.
TelegramCounts(payload) ==
  [u \in TgLinks |-> Cardinality({k \in 1..Len(payload) : payload[k].reference.tg_post_url = u})]

\* The old attachments stay when post.media.all().delete() is left out.
RowsAfterDelete_Kept(old) == old

\* post.media.all().delete().
RowsAfterDelete(old) == {}

\* An attachment is kept whatever its download returned.
KeepAfterCache_Always(r) == TRUE

\* The just-created attachment stays only if cache_media raised nothing and
\* returned a path.
KeepAfterCache(r) == ~r.raised /\ r.path # NoPath

\* An album is expanded for every Telegram descriptor, however many
\* descriptors name the link.
ShouldExpand_AnyCount(resolver, tg_url, counts, processed) ==
  /\ resolver = "telegram"
  /\ tg_url # ""
  /\ tg_url \notin processed

\* resolver_name == "telegram", exactly one descriptor names the link and the
\* link's album was not expanded before in this call.
ShouldExpand(resolver, tg_url, counts, processed) ==
  /\ resolver = "telegram"
  /\ tg_url # ""
  /\ counts[tg_url] = 1
  /\ tg_url \notin processed

\* source_metadata["media"] entries.
Entry(status, error, auto_album, source) ==
  [status |-> status, error |-> error, auto_album |-> auto_album, source |-> source]

\* PostMedia.objects.create(...) followed by cache_media(pm) and the handling
\* of its result: w is the work state [rows, next_id, files, requests,
\* next_order, entries, ...]; the result also tells whether the medium is cached.
CreateAndCache(w, type, url, resolver, auto_album, c, t) ==
  LET pm == [NoMedia EXCEPT !.id = w.next_id, !.type = type, !.source_url = url,
                            !.resolver = resolver, !.order = w.next_order,
                            !.auto_album = auto_album]
      r == CacheMedia(pm, w.files, CacheOutcomeFor(url, c), t)
      kept == KeepAfterCache(r)
      entry == IF r.raised THEN Entry("error", "cache_failure", auto_album, url)
               ELSE IF r.path = NoPath THEN Entry("skipped", "empty_cache", auto_album, url)
               ELSE Entry("cached", "", auto_album, url)
  IN [w |-> [w EXCEPT !.rows = IF kept THEN w.rows \cup {r.pm} ELSE w.rows,
                      !.next_id = w.next_id + 1,
                      !.files = r.files,
                      !.requests = w.requests + r.requests,
                      !.next_order = w.next_order + 1],
      entry |-> entry,
      cached |-> ~r.raised /\ r.path # NoPath]

\* _attach_additional_telegram_album_media: every extra with an address gets
\* an attachment, a download and an audit entry flagged auto_album.
RECURSIVE AttachExtras(_, _, _, _, _)
AttachExtras(extras, w, media_type, resolver, t) ==
  IF extras = <<>> THEN w
  ELSE LET x == Head(extras)
       IN IF x.url = "" THEN AttachExtras(Tail(extras), w, media_type, resolver, t)
          ELSE LET ca == CreateAndCache(w, IF x.type # "" THEN x.type ELSE media_type,
                                        x.url, resolver, TRUE, x.cache, t)
               IN AttachExtras(Tail(extras), [ca.w EXCEPT !.entries = Append(@, ca.entry)],
                               media_type, resolver, t)

\* One pass of the loop over media_payload.
AttachItem(item, w, album, counts, t) ==
  LET media_type == IF item.type = "image" THEN "photo" ELSE item.type
  IN IF media_type \notin {"photo", "video", "doc"}
       THEN [w EXCEPT !.entries = Append(@, Entry("skipped", "unsupported_type", FALSE, item.source_url))]
     ELSE
       LET res == IF item.source_url # "" THEN [url |-> item.source_url, calls |-> <<>>]
                  ELSE ResolveMediaReference(item.resolver, item.reference, item.world)
       IN IF res.url = ""
            THEN [w EXCEPT !.entries = Append(@, Entry("unresolved", "missing_source", FALSE, ""))]
          ELSE
            LET ca == CreateAndCache(w, media_type, res.url, item.resolver, FALSE, item.cache, t)
                w1 == [ca.w EXCEPT !.entries = Append(@, ca.entry)]
                tg_url == item.reference.tg_post_url
            IN IF ca.cached /\ ShouldExpand(item.resolver, tg_url, counts, w.processed)
                 THEN AttachExtras(album,
                                   [w1 EXCEPT !.processed = @ \cup {tg_url},
                                              !.consumed = Append(@, tg_url)],
                                   media_type, item.resolver, t)
                 ELSE w1

\* What identifies an attachment apart from its row id.
Content(pm) ==
  [type |-> pm.type, source_url |-> pm.source_url, resolver |-> pm.resolver,
   order |-> pm.order, auto_album |-> pm.auto_album]

\* attach_media_from_payload(post, media_payload) is entered: the old
\* attachments are deleted and the Telegram links are counted.  A repeated
\* call is made with the same descriptors and meets the same outside world.
AttachCall(payload, album) ==
  /\ \/ att.pc = "idle"
     \/ /\ att.pc = "done"
        /\ Len(att.results) < MaxAttachCalls
        /\ payload = att.payload
        /\ album = att.album
  /\ att' = [att EXCEPT !.pc = "loop", !.payload = payload, !.album = album, !.i = 1,
                        !.next_order = 0, !.counts = TelegramCounts(payload),
                        !.processed = {}, !.entries = <<>>, !.consumed = <<>>,
                        !.first_id = mdb.next_id]
  /\ mdb' = [mdb EXCEPT !.rows = RowsAfterDelete(mdb.rows)]
  /\ UNCHANGED <<now, channel, db, tx, sv, gen, rs, ns, rows, posts, queue, dw, pw, sent, raised>>

\* The next descriptor is handled, album expansion included.
AttachPass ==
  /\ att.pc = "loop"
  /\ att.i <= Len(att.payload)
  /\ LET w0 == [rows |-> mdb.rows, next_id |-> mdb.next_id, files |-> mdb.files,
                requests |-> mdb.requests, next_order |-> att.next_order,
                processed |-> att.processed, consumed |-> att.consumed,
                entries |-> att.entries]
         w == AttachItem(att.payload[att.i], w0, att.album, att.counts, now)
     IN /\ mdb' = [mdb EXCEPT !.rows = w.rows, !.next_id = w.next_id, !.files = w.files,
                              !.requests = w.requests]
        /\ att' = [att EXCEPT !.i = att.i + 1, !.next_order = w.next_order,
                              !.processed = w.processed, !.consumed = w.consumed,
                              !.entries = w.entries]
  /\ UNCHANGED <<now, channel, db, tx, sv, gen, rs, ns, rows, posts, queue, dw, pw, sent, raised>>

\* The loop is over: source_metadata["media"] is saved and the call returns.
AttachReturn ==
  /\ att.pc = "loop"
  /\ att.i > Len(att.payload)
  /\ mdb' = [mdb EXCEPT !.meta = att.entries]
  /\ att' = [att EXCEPT !.pc = "done",
                        !.results = Append(@, {Content(pm) : pm \in mdb.rows})]
  /\ UNCHANGED <<now, channel, db, tx, sv, gen, rs, ns, rows, posts, queue, dw, pw, sent, raised>>

\* Descriptors: with a direct address (downloaded, refused, failing with an
\* exception), of an unsupported type, without address and resolver, tweets
\* that resolve or do not, Telegram posts that resolve to a file, that meet
\* no configured resolver, that carry their address, or whose resolver
\* service fails.
Descriptor(type, source_url, resolver, reference, world, c) ==
  [type |-> type, source_url |-> source_url, resolver |-> resolver,
   reference |-> reference, world |-> world, cache |-> c]

Descriptors ==
  {Descriptor("photo", AssetUrl, "", NoReference, NoWorld, c) : c \in {"ok", "empty", "raise"}}
  \cup {Descriptor("image", AssetUrl, "", NoReference, NoWorld, "ok"),
        Descriptor("audio", AssetUrl, "", NoReference, NoWorld, "ok"),
        Descriptor("photo", "", "", NoReference, NoWorld, "ok"),
        Descriptor("photo", "", "twitter", [NoReference EXCEPT !.tweet_url = TweetUrl],
                   [NoWorld EXCEPT !.stalker = "forbidden", !.mirror = "asset"], "ok"),
        Descriptor("photo", "", "twitter", [NoReference EXCEPT !.tweet_url = TweetUrl], [NoWorld EXCEPT !.page = "asset"], "ok"),
        Descriptor("photo", "", "telegram", [NoReference EXCEPT !.tg_post_url = TgPermalink],
                   [NoWorld EXCEPT !.telegram = "file"], "ok"),
        Descriptor("photo", "", "telegram", [NoReference EXCEPT !.tg_post_url = TgPermalink2],
                   [NoWorld EXCEPT !.telegram = "file"], "ok"),
        Descriptor("photo", "", "telegram", [NoReference EXCEPT !.tg_post_url = TgPermalink], NoWorld, "ok"),
        Descriptor("video", AssetUrl, "telegram", [NoReference EXCEPT !.tg_post_url = TgPermalink], NoWorld, "ok"),
        Descriptor("photo", "", "telegram", [NoReference EXCEPT !.tg_post_url = TgPermalink],
                   [NoWorld EXCEPT !.service = "http_error"], "ok")}

\* What consume_cached_album delivers: nothing, five further items of which
\* one has no address and two fail to download, or five that all download.
Extra(url, c) == [url |-> url, type |-> "photo", cache |-> c]
Albums ==
  {<<>>,
   <<Extra(ExtraFile, "ok"), Extra(ExtraFile, "raise"), Extra(ExtraFile, "empty"),
     Extra("", "ok"), Extra(ExtraFile, "ok")>>,
   <<Extra(ExtraFile, "ok"), Extra(ExtraFile, "ok"), Extra(ExtraFile, "ok"),
     Extra(ExtraFile, "ok"), Extra(ExtraFile, "ok")>>}

Payloads == UNION {[1..n -> Descriptors] : n \in 0..MaxPayload}

\* The post has no attachment yet, or one cached attachment of an earlier call.
OldMedia ==
  {EmptyMedia,
   [EmptyMedia EXCEPT !.rows = {[NoMedia EXCEPT !.id = 1, !.source_url = AssetUrl,
                                               !.cache_path = <<"cache", 1>>,
                                               !.expires_at = StartNow + Day]},
                      !.next_id = 2, !.files = {<<"cache", 1>>}]}

InitAttach ==
  /\ now = StartNow
  /\ channel = DefaultChannel
  /\ db = [skip_locked |-> TRUE]
  /\ rows = {}
  /\ posts = [p \in Posts |-> NoRow]
  /\ InitQuiet
  /\ gen = IdleGen
  /\ rs = IdleResolve
  /\ mdb \in OldMedia
  /\ \E payload \in Payloads, album \in Albums :
       att = [IdleAttach EXCEPT !.payload = payload, !.album = album]

SpecAttach ==
  /\ InitAttach
  /\ [][\/ AttachCall(att.payload, att.album)
        \/ AttachPass
        \/ AttachReturn]_vars

\* ------------------------------------------------------------ cache purge
\* The same query on cache_path instead of expires_at.
ExpiredMedia_Cached(media, t) == {r \in media : r.cache_path # NoPath}

\* PostMedia.objects.filter(expires_at__lt=now).
ExpiredMedia(media, t) == {r \in media : r.expires_at # NULL /\ r.expires_at < t}

\* purge_cache(), as task_housekeeping runs it: the cached file of every
\* expired attachment is removed and its cache_path emptied.
PurgeCache ==
  /\ LET expired == ExpiredMedia(mdb.rows, now)
     IN mdb' = [mdb EXCEPT
                  !.rows = {IF r \in expired THEN [r EXCEPT !.cache_path = NoPath] ELSE r :
                              r \in mdb.rows},
                  !.files = mdb.files \ {r.cache_path : r \in expired}]
  /\ UNCHANGED <<now, channel, db, tx, sv, gen, att, rs, ns, rows, posts, queue, dw, pw, sent, raised>>

\* A task loads the attachment (publish_post: list(post.media.all())) and
\* holds the object.
LoadMedia(c, pm) ==
  /\ sv[c].pc \in {"idle", "returned"}
  /\ pm \in mdb.rows
  /\ sv' = [sv EXCEPT ![c] = [IdleCall EXCEPT !.pc = "loaded", !.pm = pm]]
  /\ UNCHANGED <<now, channel, db, tx, gen, mdb, att, rs, ns, rows, posts, queue, dw, pw, sent, raised>>

\* The task calls cache_media on the object it holds; pm.save(update_fields)
\* writes the cached fields to the row of the same id.
CacheHeld(c, o) ==
  /\ sv[c].pc = "loaded"
  /\ mdb.calls < MaxCacheCalls
  /\ Applicable(sv[c].pm.source_url, o)
  /\ LET r == CacheMedia(sv[c].pm, mdb.files, o, now)
     IN /\ mdb' = [mdb EXCEPT
                     !.rows = {IF x.id = r.pm.id /\ r.pm # sv[c].pm THEN r.pm ELSE x : x \in mdb.rows},
                     !.files = r.files,
                     !.requests = mdb.requests + r.requests,
                     !.calls = mdb.calls + 1,
                     !.returned = r.path]
        /\ sv' = [sv EXCEPT ![c] = [@ EXCEPT !.pc = "returned", !.pm = r.pm, !.path = r.path]]
  /\ UNCHANGED <<now, channel, db, tx, gen, att, rs, ns, rows, posts, queue, dw, pw, sent, raised>>

\* Two attachments, each never cached or cached with its file in place, the
\* cache entry expired yesterday, expiring this very minute or tomorrow.
InitPurge ==
  /\ now = StartNow
  /\ channel = DefaultChannel
  /\ db = [skip_locked |-> TRUE]
  /\ rows = {}
  /\ posts = [p \in Posts |-> NoRow]
  /\ InitQuiet
  /\ gen = IdleGen
  /\ att = IdleAttach
  /\ rs = IdleResolve
  /\ \E e1, e2 \in {NULL, StartNow - Day, StartNow, StartNow + Day} :
       LET row(i, url, e) ==
             [NoMedia EXCEPT !.id = i, !.source_url = url, !.order = i - 1, !.expires_at = e,
                             !.cache_path = IF e = NULL THEN NoPath ELSE <<"cache", i>>]
           media == {row(1, AssetUrl, e1), row(2, TgFile, e2)}
       IN mdb = [EmptyMedia EXCEPT !.rows = media, !.next_id = 3,
                                   !.files = {r.cache_path : r \in media} \ {NoPath}]

SpecPurge ==
  /\ InitPurge
  /\ [][\/ PurgeCache
        \/ \E c \in Callers, pm \in mdb.rows : LoadMedia(c, pm)
        \/ \E c \in Callers, o \in CacheOutcomes : CacheHeld(c, o)
        \/ Tick(Day, StartNow + 2 * Day)]_vars

\* ------------------------------------- publication tasks and housekeeping
\* Post 1 is Scheduled and due or already Published; post 2 is a draft about
\* to expire or a Published post; one attachment whose cache entry expired.
\* publish_post is called for them (by the due-poll, by "publish now", by a
\* redelivery) while task_housekeeping runs every hour.
InitTerminal ==
  /\ now = StartNow
  /\ channel = DefaultChannel
  /\ db = [skip_locked |-> TRUE]
  /\ rows = Posts
  /\ \E r1 \in {[NoRow EXCEPT !.status = "SCHEDULED", !.scheduled_at = StartNow - 5],
               [NoRow EXCEPT !.status = "PUBLISHED", !.scheduled_at = StartNow - 5,
                             !.published_at = StartNow - 5, !.message_id = 1]},
        r2 \in {[NoRow EXCEPT !.expires_at = StartNow + 30],
               [NoRow EXCEPT !.status = "PUBLISHED", !.scheduled_at = StartNow - 5,
                             !.published_at = StartNow - 5, !.message_id = 1,
                             !.expires_at = StartNow - Day]} :
       posts = [p \in Posts |-> IF p = 1 THEN r1 ELSE IF p = 2 THEN r2 ELSE NoRow]
  /\ InitQuiet
  /\ gen = IdleGen
  /\ att = IdleAttach
  /\ rs = IdleResolve
  /\ mdb = [EmptyMedia EXCEPT
              !.rows = {[NoMedia EXCEPT !.id = 1, !.source_url = AssetUrl,
                                        !.cache_path = <<"cache", 1>>,
                                        !.expires_at = StartNow + 30]},
              !.next_id = 2, !.files = {<<"cache", 1>>}]

SpecTerminal ==
  /\ InitTerminal
  /\ [][\/ \E p \in Posts : InvokePublish(p)
        \/ \E w \in PubWorkers, p \in Posts : PublishStart(w, p)
        \/ \E w \in PubWorkers, o \in Outcomes : PublishFinish(w, o)
        \/ Housekeeping
        \/ PurgeCache
        \/ Tick(MinutesPerHour, StartNow + MinutesPerHour)]_vars

\* ----------------------------------------------- two admin requests at once
\* approve_post / assign_auto_slot in the request of caller c, up to the
\* query of next_auto_slot: the claimed slots are read.  The admin offers
\* approve for drafts and "recompute AUTO slot" for drafts and scheduled
\* posts; the two requests work on different posts.
SlotRead(c, p, call) ==
  /\ sv[c].pc = "idle"
  /\ p \in rows
  /\ \A d \in Callers \ {c} : sv[d].post_id # p
  /\ \/ call = "approve" /\ posts[p].status = "DRAFT"
     \/ /\ call = "assign"
        /\ \/ posts[p].status = "DRAFT"
           \/ posts[p].status \in {"APPROVED", "SCHEDULED"} /\ posts[p].scheduled_at # NULL
        /\ posts[p].schedule_mode # "MANUAL"
  /\ sv' = [sv EXCEPT ![c] = [IdleCall EXCEPT !.pc = call, !.post_id = p,
                                              !.used = UsedSlots(posts, rows)]]
  /\ UNCHANGED <<now, channel, db, tx, gen, mdb, att, rs, ns, rows, posts, queue, dw, pw, sent, raised>>

\* The rest of the call: the loop of next_auto_slot over the slots that were
\* read, compute_dupe and post.save().
SlotSave(c) ==
  /\ sv[c].pc \in {"approve", "assign"}
  /\ LET p == sv[c].post_id
         slot == next_auto_slot(channel, now, sv[c].used)
         new == IF sv[c].pc = "approve" THEN ApprovedObject(posts[p], slot)
                ELSE AutoSlotObject(posts[p], slot)
         obj == [new EXCEPT !.dupe_score = compute_dupe(posts, rows)]
     IN posts' = [posts EXCEPT ![p] = SaveRow(posts[p], obj, channel, now, AllFields)]
  /\ sv' = [sv EXCEPT ![c] = IdleCall]
  /\ UNCHANGED <<now, channel, db, tx, gen, mdb, att, rs, ns, rows, queue, dw, pw, sent, raised>>

SpecSlotRace ==
  /\ InitSlots
  /\ [][\/ \E c \in Callers, p \in Posts, call \in {"approve", "assign"} : SlotRead(c, p, call)
        \/ \E c \in Callers : SlotSave(c)]_vars

\* ------------------------------------------------------------ dispatch
\* The caption limit _publish_async applies to post.text.
CaptionLimit == 1024

\* bool(post_text.strip()).
TextHasContent(text) == ~text.blank

\* caption_text of _publish_async: the text when it has content and fits,
\* else empty.
CaptionText(text) ==
  IF TextHasContent(text) /\ text.len <= CaptionLimit THEN text ELSE NoText

\* `media` of one pass of the loop is set: a stored tg_file_id, or a file
\* opened from the cache_path the row has or cache_media returns.
HasMediaHandle(m) == m.tg_file_id # "" \/ m.cache \in {"cached", "fetch_ok"}

\* The pass raises: cache_media raises, or open() of a cache_path whose file
\* is gone.
HandleRaises(m) == m.tg_file_id = "" /\ m.cache \in {"stale", "fetch_raise"}

\* The list `im` handed to send_media_group: one entry per attachment with a
\* handle; the caption goes to the entry built at index 0 of medias.
InputMedia(text, medias) ==
  LET indexed == [i \in DOMAIN medias |-> [index |-> i - 1, m |-> medias[i]]]
      kept == SelectSeq(indexed, LAMBDA e : HasMediaHandle(e.m))
  IN [j \in DOMAIN kept |->
        [type |-> kept[j].m.type,
         caption |-> IF kept[j].index = 0 /\ CaptionText(text) # NoText
                     THEN CaptionText(text) ELSE NoText]]

\* _publish_async(post, medias): the media group and the text messages sent.
PublishAsync(bot, text, medias) ==
  LET send_text_separately == TextHasContent(text) /\ CaptionText(text) = NoText
  IN IF ~bot THEN [outcome |-> "no_bot", group |-> <<>>, messages |-> <<>>]
     ELSE IF \E i \in DOMAIN medias : HandleRaises(medias[i])
     THEN [outcome |-> "raised", group |-> <<>>, messages |-> <<>>]
     ELSE [outcome |-> "sent",
           group |-> InputMedia(text, medias),
           messages |-> IF medias = <<>> \/ send_text_separately THEN <<text>> ELSE <<>>]

\* publish_post runs _publish_async on a post with this text and these
\* attachments.
PublishAsyncCall(text, medias) ==
  /\ tx.pc = "idle"
  /\ LET r == PublishAsync(HasBot(channel), text, medias)
     IN tx' = [pc |-> "done", text |-> text, medias |-> medias, outcome |-> r.outcome,
               group |-> r.group, messages |-> r.messages]
  /\ UNCHANGED <<now, channel, db, rows, posts, queue, dw, pw, sent, raised, ns, gen, mdb, att, rs, sv>>

MaxMedias == 2

InitPublish ==
  /\ now = StartNow
  /\ \E tok \in {"", "123"} : channel = [DefaultChannel EXCEPT !.bot_token = tok]
  /\ db = [skip_locked |-> TRUE]
  /\ rows = {}
  /\ posts = [p \in Posts |-> NoRow]
  /\ InitIdle

\* PostMedia rows as publish_post loads them: with or without tg_file_id;
\* cache says what the cache_path is worth (set and on disk, set and gone)
\* or what cache_media returns for an empty one.
\* Post.text: empty, blank, short, exactly at the caption limit, above it.
SpecPublish ==
  /\ InitPublish
  /\ [][\E text \in {NoText, [len |-> 3, blank |-> TRUE], [len |-> 5, blank |-> FALSE],
                     [len |-> CaptionLimit, blank |-> FALSE],
                     [len |-> CaptionLimit + 1, blank |-> FALSE]},
           n \in 0..MaxMedias :
          \E medias \in [1..n -> [tg_file_id : {"", "file"}, type : {"photo", "video"},
                                  cache : {"cached", "stale", "fetch_ok", "fetch_fail",
                                           "fetch_raise"}]] :
            PublishAsyncCall(text, medias)]_vars

\* ------------------------------------------------------------------ claims
\* The executions of task_publish_due that hold post p: selected by their
\* query and not yet handed to the queue.
Claimants(p) == {w \in DueWorkers : dw[w].pc # "idle" /\ p \in dw[w].due_ids}

C2_AtMostOneDispatch ==
  \A p \in rows :
    Cardinality({w \in PubWorkers : pw[w].pc = "dispatch" /\ pw[w].post_id = p}) <= 1

\* C3: an execution of publish_post that finds the post Published returns at
\* once: nothing is sent, no field of the post changes, no dispatch starts.
C3_PublishedIsNoOp ==
  [][\A p \in rows :
       (queue'[p] = queue[p] - 1 /\ posts[p].status = "PUBLISHED")
         => (posts' = posts /\ sent' = sent /\ pw' = pw /\ raised' = raised)]_vars

\* A post the pipeline has published, with a second publish_post delivery
\* for it about to run on an idle worker.
C3_Witness ==
  \E p \in rows :
    /\ posts[p].status = "PUBLISHED" /\ sent[p] = 1 /\ posts[p].message_id # NULL
    /\ queue[p] > 0
    /\ pw["p1"].pc = "idle"

\* C4: when the dispatch ends with Forbidden, publish_post leaves the post
\* Scheduled if its scheduled_at is set and Approved otherwise, never
\* Publishing and never Published.
C4_ForbiddenRollsBack ==
  [][\A w \in PubWorkers :
       (PublishFinish(w, "forbidden") /\ channel.bot_token \notin {"", " "})
         => LET p == pw[w].post_id
            IN posts'[p].status =
                 (IF posts'[p].scheduled_at # NULL THEN "SCHEDULED" ELSE "APPROVED")]_vars

\* Both branches have happened: one post rolled back to Scheduled and one to
\* Approved, each with the forbidden failure recorded.
C4_Witness ==
  \E p, q \in rows :
    /\ posts[p].source_metadata.status = "failed" /\ posts[p].source_metadata.error = "forbidden"
    /\ posts[p].status = "SCHEDULED" /\ posts[p].scheduled_at # NULL
    /\ posts[q].source_metadata.status = "failed" /\ posts[q].source_metadata.error = "forbidden"
    /\ posts[q].status = "APPROVED" /\ posts[q].scheduled_at = NULL

\* C5: with an empty or blank bot token, an execution of publish_post that
\* reaches the dispatch sends nothing, rolls the status back as for
\* Forbidden, leaves message_id unset, raises nothing and records a
\* publication outcome 'failed'.
C5_MissingBotRollsBack ==
  [][\A w \in PubWorkers :
       (pw[w].pc = "dispatch" /\ pw'[w].pc = "idle" /\ channel.bot_token \in {"", " "})
         => LET p == pw[w].post_id
            IN /\ sent' = sent
               /\ raised' = raised
               /\ posts'[p].status =
                    (IF posts'[p].scheduled_at # NULL THEN "SCHEDULED" ELSE "APPROVED")
               /\ posts'[p].message_id = NULL
               /\ posts'[p].source_metadata.status = "failed"]_vars

\* A blank token, and both branches have happened with nothing sent.
C5_Witness ==
  /\ channel.bot_token = " "
  /\ \E p, q \in rows :
       /\ posts[p].source_metadata.status = "failed" /\ posts[p].source_metadata.error = "missing_bot"
       /\ posts[p].status = "SCHEDULED" /\ posts[p].scheduled_at # NULL
       /\ posts[q].source_metadata.status = "failed" /\ posts[q].source_metadata.error = "missing_bot"
       /\ posts[q].status = "APPROVED" /\ posts[q].scheduled_at = NULL
       /\ sent[p] = 0 /\ sent[q] = 0

\* C6: however the dispatch ends, publish_post raises nothing and does not
\* leave the post Publishing: the post ends Published, or Scheduled/Approved
\* with a failure recorded.
C6_NoUncaughtNoPublishing ==
  [][\A w \in PubWorkers :
       (pw[w].pc = "dispatch" /\ pw'[w].pc = "idle")
         => LET p == pw[w].post_id
            IN /\ raised' = raised
               /\ \/ posts'[p].status = "PUBLISHED"
                  \/ /\ posts'[p].status \in {"SCHEDULED", "APPROVED"}
                     /\ posts'[p].source_metadata.status = "failed"]_vars

\* C7: every save stores an Approved post with a scheduled_at as Scheduled
\* and an Approved post without one as Approved, so no stored post is
\* Approved with a scheduled_at.
C7_SaveKeepsScheduleInvariant ==
  /\ [](\A p \in rows : ~(posts[p].status = "APPROVED" /\ posts[p].scheduled_at # NULL))
  /\ [][\A p \in Posts, sa \in SaveTimes, m \in {"AUTO", "MANUAL"} :
          AdminSavePost(p, "APPROVED", sa, m)
            => /\ posts'[p].scheduled_at = sa
               /\ posts'[p].status = (IF sa # NULL THEN "SCHEDULED" ELSE "APPROVED")]_vars

\* One post was saved Approved with a date and is stored Scheduled, another
\* was saved Approved without one and is stored Approved.
C7_Witness ==
  \E p, q \in rows :
    /\ posts[p].status = "SCHEDULED" /\ posts[p].scheduled_at = StartNow + 20
    /\ posts[q].status = "APPROVED" /\ posts[q].scheduled_at = NULL

\* C8: a run of task_publish_due changes only posts that are Approved or
\* Scheduled with scheduled_at <= the run's now, and only their status, to
\* Publishing; once it has committed, no such post is left unless another
\* run holds it; publish_post is enqueued only for a Publishing post that
\* has no message queued yet, one message at a time.
C8_DueRunFlipsExactlyTheDue ==
  /\ [](\A w \in DueWorkers :
          dw[w].pc = "committed" =>
            \A p \in rows :
              (/\ posts[p].status \in {"APPROVED", "SCHEDULED"}
               /\ posts[p].scheduled_at # NULL
               /\ posts[p].scheduled_at <= dw[w].now)
                => \E v \in DueWorkers \ {w} : dw[v].pc = "locked" /\ p \in dw[v].due_ids)
  /\ [][\A p \in rows :
          /\ posts'[p] # posts[p] =>
               /\ posts[p].status \in {"APPROVED", "SCHEDULED"}
               /\ posts[p].scheduled_at # NULL
               /\ \E w \in DueWorkers :
                    dw[w].pc = "locked" /\ posts[p].scheduled_at <= dw[w].now
               /\ posts'[p] = [posts[p] EXCEPT !.status = "PUBLISHING"]
          /\ queue'[p] # queue[p] =>
               /\ queue[p] = 0 /\ queue'[p] = 1
               /\ posts[p].status = "PUBLISHING"]_vars

\* A run has committed: it flipped a due post and left alone a post
\* scheduled for later.
C8_Witness ==
  \E w \in DueWorkers, p, q \in rows :
    /\ dw[w].pc = "committed" /\ p \in dw[w].due_ids
    /\ posts[p].status = "PUBLISHING"
    /\ posts[q].status = "SCHEDULED" /\ posts[q].scheduled_at > dw[w].now

\* C9: a post whose status is Scheduled, Publishing or Published has a
\* scheduled_at.
C9_ScheduledHasDate ==
  \A p \in rows :
    posts[p].status \in {"SCHEDULED", "PUBLISHING", "PUBLISHED"} => posts[p].scheduled_at # NULL

\* A post that went through approval, dispatch and a rollback, and is
\* Scheduled again with its date.
C9_Witness ==
  \E p \in rows :
    /\ posts[p].status = "SCHEDULED" /\ posts[p].scheduled_at # NULL
    /\ posts[p].source_metadata.status = "failed"

\* C10: no two posts in status Approved or Scheduled hold the same
\* scheduled_at.
C10_NoSharedSlot ==
  \A p, q \in rows :
    (/\ p # q
     /\ posts[p].status \in {"APPROVED", "SCHEDULED"}
     /\ posts[q].status \in {"APPROVED", "SCHEDULED"}
     /\ posts[p].scheduled_at # NULL)
      => posts[p].scheduled_at # posts[q].scheduled_at

\* scheduled_at of the posts in status Approved or Scheduled.
ClaimedTimestamps ==
  {posts[p].scheduled_at :
     p \in {q \in rows : posts[q].status \in {"APPROVED", "SCHEDULED"}
                         /\ posts[q].scheduled_at # NULL}}

\* C11: the timestamp returned by next_auto_slot is not one of the
\* timestamps claimed by the channel's Approved or Scheduled posts.
C11_ReturnedSlotIsFree ==
  ns.pc = "done" => ToUtc(ns.candidate) \notin ClaimedTimestamps

\* C12: for a window whose end is after its start, the timestamp returned by
\* next_auto_slot has a local time of day inside
\* [slot_start_hour:00, slot_end_hour:slot_end_minute].
C12_ReturnedSlotInWindow ==
  (/\ ns.pc = "done"
   /\ channel.slot_end_hour * MinutesPerHour + channel.slot_end_minute
        > channel.slot_start_hour * MinutesPerHour)
    => LET tod == LocalTime(ToUtc(ns.candidate)) % Day
       IN /\ channel.slot_start_hour * MinutesPerHour <= tod
          /\ tod <= channel.slot_end_hour * MinutesPerHour + channel.slot_end_minute

\* C13: the timestamp returned by next_auto_slot is a whole number of steps
\* after slot_start_hour:00 of its day.
C13_ReturnedSlotOnGrid ==
  ns.pc = "done" =>
    ((LocalTime(ToUtc(ns.candidate)) % Day) - channel.slot_start_hour * MinutesPerHour)
       % channel.slot_step_min = 0

\* C14: every call of next_auto_slot returns, and it returns the first
\* candidate that is not claimed, rolling over whole days when they are full.
C14_SlotCallTerminates ==
  /\ <>(ns.pc = "done")
  /\ [](ns.pc = "done" =>
          /\ ns.candidate \notin ns.used
          /\ ns.candidate = next_auto_slot(channel, now, ns.used))

\* A call returned after rolling over two whole days that were fully claimed.
C14_Witness ==
  /\ ns.pc = "done"
  /\ channel = OneSlotChannel
  /\ ns.candidate = 2 * Day + 6 * MinutesPerHour
  /\ Cardinality(ns.used) = 2

\* C15: with step 30 and window 06:00-23:30, approving a draft at local
\* 14:05 with no claims stores 14:30; approving with 14:30 claimed stores
\* 15:00; approving at 23:20 with the last slot 23:30 claimed stores 06:00 of
\* the next day.
C15_ApprovalExamples ==
  [][\A p \in rows :
       (ApprovePost(p) /\ channel = DefaultChannel)
         => LET claimed == {LocalTime(x) : x \in ClaimedTimestamps}
                got == LocalTime(posts'[p].scheduled_at)
            IN /\ (LocalTime(now) = 14 * MinutesPerHour + 5 /\ claimed = {})
                    => got = 14 * MinutesPerHour + 30
               /\ (LocalTime(now) = 14 * MinutesPerHour + 5
                     /\ claimed = {14 * MinutesPerHour + 30})
                    => got = 15 * MinutesPerHour
               /\ (LocalTime(now) = 23 * MinutesPerHour + 20
                     /\ claimed = {23 * MinutesPerHour + 30})
                    => got = Day + 6 * MinutesPerHour]_vars

\* Two drafts were approved at 14:05: one holds 14:30, the other 15:00.
C15_Witness ==
  /\ channel = DefaultChannel
  /\ LocalTime(now) = 14 * MinutesPerHour + 5
  /\ \E p, q \in rows :
       /\ posts[p].status = "SCHEDULED" /\ posts[q].status = "SCHEDULED"
       /\ LocalTime(posts[p].scheduled_at) = 14 * MinutesPerHour + 30
       /\ LocalTime(posts[q].scheduled_at) = 15 * MinutesPerHour

\* C16: when the dispatch succeeds, publish_post leaves the post Published
\* with published_at set, scheduled_at set (the publication time if it was
\* null), the message id stored, dupe_score recomputed, and a publication
\* record 'completed' that carries requested_at and completed_at.
C16_SuccessRecordsPublication ==
  [][\A w \in PubWorkers :
       (PublishFinish(w, "ok") /\ channel.bot_token \notin {"", " "})
         => LET p == pw[w].post_id
            IN /\ posts'[p].status = "PUBLISHED"
               /\ posts'[p].published_at # NULL
               /\ posts'[p].scheduled_at # NULL
               /\ pw[w].post.scheduled_at = NULL => posts'[p].scheduled_at = now
               /\ posts'[p].message_id # NULL
               /\ posts'[p].dupe_score =
                    {q \in rows : posts[q].status = "PUBLISHED"}
               /\ posts'[p].source_metadata.status = "completed"
               /\ posts'[p].source_metadata.requested_at # NULL
               /\ posts'[p].source_metadata.completed_at # NULL]_vars

\* C17: a dispatch that fails with Forbidden or for a missing bot leaves
\* scheduled_at as it was and the post due again, and with no operator in
\* between the post is selected and flipped to Publishing by a later run of
\* task_publish_due.
C17_FailedPostIsRetried ==
  /\ [][\A w \in PubWorkers :
          (/\ pw[w].pc = "dispatch" /\ pw'[w].pc = "idle"
           /\ posts'[pw[w].post_id].source_metadata.status = "failed")
            => LET p == pw[w].post_id
               IN /\ posts'[p].scheduled_at = posts[p].scheduled_at
                  /\ posts'[p].status = "SCHEDULED"
                  /\ posts'[p].scheduled_at <= now]_vars
  /\ \A p \in Posts :
       (posts[p].status = "SCHEDULED" /\ posts[p].source_metadata.status = "failed")
         ~> (posts[p].status = "PUBLISHING")

\* A post whose dispatch failed has been flipped to Publishing again by
\* task_publish_due, with its scheduled_at.
C17_Witness ==
  \E p \in rows :
    /\ posts[p].status = "PUBLISHING"
    /\ posts[p].source_metadata.status = "failed"
    /\ posts[p].scheduled_at # NULL
    /\ dw["d1"].pc = "committed" /\ p \in dw["d1"].due_ids

\* C18: a run of task_housekeeping reverts to Draft every Scheduled or
\* Publishing post whose scheduled_at is older than now minus the grace
\* period, clearing scheduled_at, setting expires_at and recording the error
\* 'stale_schedule'; a Scheduled post within the grace period stays
\* Scheduled.
C18_StaleScheduleRecovered ==
  [][Housekeeping =>
       \A p \in rows :
         /\ (/\ posts[p].status \in {"SCHEDULED", "PUBLISHING"}
             /\ posts[p].scheduled_at # NULL
             /\ posts[p].scheduled_at < now - StaleScheduleGraceMinutes)
              => /\ p \in rows'
                 /\ posts'[p].status = "DRAFT"
                 /\ posts'[p].scheduled_at = NULL
                 /\ posts'[p].expires_at # NULL
                 /\ posts'[p].source_metadata.error = "stale_schedule"
         /\ (/\ posts[p].status = "SCHEDULED"
             /\ posts[p].scheduled_at # NULL
             /\ posts[p].scheduled_at >= now - StaleScheduleGraceMinutes)
              => (p \in rows' /\ posts'[p].status = "SCHEDULED")]_vars

\* C19: a run of task_housekeeping deletes every Published post whose
\* published_at is older than the retention window and keeps every Published
\* post whose published_at is within it.
C19_PublishedRetention ==
  [][Housekeeping =>
       \A p \in rows :
         (posts[p].status = "PUBLISHED" /\ posts[p].published_at # NULL)
           => (p \notin rows' <=>
                 posts[p].published_at < now - PublishedPostTtlDays * Day)]_vars

\* C20: a run of task_housekeeping deletes every draft whose expires_at is
\* before now, and deletes no draft whose expires_at is not before now and
\* no post that is Approved, Scheduled or Publishing.
C20_ExpiredDraftsDeleted ==
  [][Housekeeping =>
       \A p \in rows :
         /\ (posts[p].status = "DRAFT" /\ posts[p].expires_at # NULL
               /\ posts[p].expires_at < now) => p \notin rows'
         /\ (posts[p].status = "DRAFT" /\ posts[p].expires_at # NULL
               /\ posts[p].expires_at >= now) => p \in rows'
         /\ posts[p].status \in {"APPROVED", "SCHEDULED", "PUBLISHING"} => p \in rows']_vars

\* A run has deleted an expired draft and kept a Scheduled post whose own
\* expires_at had passed.
C20_Witness ==
  \E p, q \in Posts :
    /\ p \notin rows
    /\ q \in rows /\ posts[q].status = "SCHEDULED"
    /\ posts[q].expires_at # NULL /\ posts[q].expires_at < now

\* C21: when task_gpt_generate_for_channel has returned, it has created at
\* most draft_target_count minus the channel's earlier number of Drafts new
\* Drafts, so a channel that was within its target is still within it.
C21_GenerationStopsAtTarget ==
  gen.pc = "done" =>
    /\ gen.added <= Max(gen.target - gen.before, 0)
    /\ gen.before <= gen.target => gen.drafts <= gen.target

\* The address of the scraping mirror and the asset its page shows.
MirrorUrl == "https://r.jina.ai/https://www.twstalker.com/user/status/1976"
MirrorAsset == "https://pbs.twimg.com/media/sample123.jpg?name=large"

\* C27: with no resolver service configured and the built-in Telegram
\* resolver not configured, resolving a reference that holds only a Telegram
\* permalink returns the empty result, never the permalink.
C27_PermalinkIsNotMedia ==
  (/\ rs.pc = "done"
   /\ rs.resolver = "telegram"
   /\ rs.reference = [NoReference EXCEPT !.tg_post_url = TgPermalink]
   /\ rs.world.service = "unset"
   /\ rs.world.telegram = "not_configured")
    => rs.url = ""

\* C28: when the tweet page yields no asset and the primary scraper rejects
\* the request with HTTP 403, the scraping mirror is requested next and its
\* asset is returned: the requests are page, primary scraper, mirror.
C28_MirrorAfterForbidden ==
  (/\ rs.pc = "done"
   /\ rs.resolver = "twitter"
   /\ rs.reference = [NoReference EXCEPT !.tweet_url = TweetUrl]
   /\ rs.world.service = "unset"
   /\ rs.world.page = "none"
   /\ rs.world.stalker = "forbidden"
   /\ rs.world.mirror = "asset")
    => /\ rs.calls = <<TweetUrl, StalkerUrl, MirrorUrl>>
       /\ rs.url = MirrorAsset

\* C29: cache_media on an attachment whose cache_path points to an existing
\* file returns that path, makes no network request and changes no field of
\* the attachment; a call right after a successful one does not fetch again.
C29_CachedIsNoOp ==
  [][\A pm \in mdb.rows, o \in CacheOutcomes :
       (CacheCall(pm, o) /\ pm.cache_path # NoPath /\ pm.cache_path \in mdb.files)
         => /\ mdb'.returned = pm.cache_path
            /\ mdb'.requests = mdb.requests
            /\ mdb'.rows = mdb.rows
            /\ mdb'.files = mdb.files]_vars

\* A remote asset was cached by one call and a second call has been made:
\* one request in all.
C29_Witness ==
  /\ mdb.calls = 2
  /\ mdb.requests = 1
  /\ mdb.returned # NoPath
  /\ mdb.returned \in mdb.files
  /\ \E pm \in mdb.rows : IsHttp(pm.source_url) /\ pm.cache_path = mdb.returned

\* C30: when cache_media fails (HTTP error, network error, empty body,
\* missing or unreadable local file, write error) it returns the
\* attachment's previous cache_path, empty if there was none, and leaves the
\* attachment's cache_path, expires_at, type and reference data unchanged.
C30_FailureKeepsAttachment ==
  [][\A pm \in mdb.rows, o \in CacheOutcomes :
       (/\ CacheCall(pm, o)
        /\ o.kind \in CacheFailures
        /\ pm.source_url # ""
        /\ ~(pm.cache_path # NoPath /\ pm.cache_path \in mdb.files))
         => /\ mdb'.returned = pm.cache_path
            /\ mdb'.rows = mdb.rows
            /\ mdb'.files = mdb.files]_vars

\* A download has failed for an attachment whose cached file had gone: the
\* earlier path is returned and still stored.
C30_Witness ==
  /\ mdb.calls = 1
  /\ mdb.returned # NoPath
  /\ mdb.returned \notin mdb.files
  /\ \E pm \in mdb.rows : pm.cache_path = mdb.returned /\ pm.expires_at # NULL

\* C22: attach_media_from_payload called twice on the same post with the
\* same descriptors and the same resolver and download outcomes leaves the
\* same attachments as one call; every attachment that existed before a
\* call is removed by it, none of the new ones is added to old ones.
C22_AttachIsIdempotent ==
  /\ att.pc \in {"loop", "done"} => \A pm \in mdb.rows : pm.id >= att.first_id
  /\ Len(att.results) = 2 => att.results[1] = att.results[2]

\* The second call has returned and left three attachments or more, and the
\* post had an attachment before the first call.
C22_Witness ==
  /\ att.pc = "done"
  /\ Len(att.results) = 2
  /\ Cardinality(att.results[2]) >= 3
  /\ <<"cache", 1>> \in mdb.files

\* C23: when attach_media_from_payload has returned, every attachment left
\* on the post is cached; each descriptor or album item whose download
\* raised or returned no path has no attachment and an audit entry 'error'
\* or 'skipped'.
C23_OnlyCachedRemain ==
  att.pc = "done" =>
    /\ \A pm \in mdb.rows : pm.cache_path # NoPath /\ pm.cache_path \in mdb.files
    /\ Cardinality(mdb.rows) =
         Cardinality({k \in 1..Len(mdb.meta) : mdb.meta[k].status = "cached"})
    /\ \A k \in 1..Len(mdb.meta) :
         mdb.meta[k].status \in {"cached", "error", "skipped", "unresolved"}

\* A call has returned after an ordinary descriptor's download raised and
\* two album items failed, one with an exception and one with no path.
C23_Witness ==
  /\ att.pc = "done"
  /\ mdb.rows # {}
  /\ \E k \in 1..Len(mdb.meta) :
       mdb.meta[k].status = "error" /\ ~mdb.meta[k].auto_album
  /\ \E k \in 1..Len(mdb.meta) :
       mdb.meta[k].status = "error" /\ mdb.meta[k].auto_album
  /\ \E k \in 1..Len(mdb.meta) :
       mdb.meta[k].status = "skipped" /\ mdb.meta[k].auto_album

\* C24: when attach_media_from_payload has returned, the post has at most 5
\* attachments, however long the descriptor list and however many items an
\* album expansion adds.
C24_AtMostFiveAttachments ==
  att.pc = "done" => Cardinality(mdb.rows) <= MaxMediaPerPost

\* C25: an album is expanded only for a Telegram link that exactly one
\* descriptor of the batch names, and at most once per link; the extra
\* attachments follow their triggering attachment directly in order and
\* their audit entries carry auto_album; when two or more descriptors name
\* the link, the album cache is not consumed and nothing extra is attached.
C25_AlbumExpandedOnceForSingleReference ==
  att.pc \in {"loop", "done"} =>
    /\ \A k \in 1..Len(att.consumed) :
         /\ att.counts[att.consumed[k]] = 1
         /\ \A j \in 1..Len(att.consumed) : att.consumed[j] = att.consumed[k] => j = k
    /\ (\A u \in TgLinks : att.counts[u] # 1) =>
         /\ att.consumed = <<>>
         /\ \A pm \in mdb.rows : ~pm.auto_album
    /\ \A x \in mdb.rows :
         x.auto_album =>
           \E tr \in mdb.rows :
             /\ ~tr.auto_album
             /\ tr.resolver = "telegram"
             /\ tr.order < x.order
             /\ \A y \in mdb.rows : (tr.order < y.order /\ y.order < x.order) => y.auto_album
    /\ \A k \in 1..Len(att.entries) :
         att.entries[k].auto_album =>
           /\ k > 1
           /\ att.entries[k - 1].auto_album \/ att.entries[k - 1].status = "cached"

\* A call has returned in which one descriptor named a Telegram link, its
\* album was attached after it and a further descriptor came after the album.
C25_Witness ==
  /\ att.pc = "done"
  /\ Len(att.consumed) = 1
  /\ \E tr, x, y \in mdb.rows :
       /\ ~tr.auto_album /\ x.auto_album /\ ~y.auto_album
       /\ tr.order < x.order /\ x.order < y.order

\* The resolution of a descriptor delivers nothing: no resolver or empty
\* reference, or neither the built-in resolver, the resolver service, the
\* reference's own addresses nor the scrapers yield an asset.
ResolutionFails(item) ==
  \/ item.resolver = ""
  \/ item.reference = NoReference
  \/ /\ ~(item.resolver = "telegram" /\ item.reference.tg_post_url # ""
            /\ item.world.telegram = "file")
     /\ item.world.service # "url"
     /\ \/ item.world.service # "unset"
        \/ /\ ~LooksLikeAsset(ReferenceFallbackUrl(item.reference))
           /\ ~(IsTwitterHost(ReferenceFallbackUrl(item.reference))
                  /\ (item.world.page = "asset" \/ item.world.stalker = "asset"))

\* C26: a descriptor without a direct address whose resolution fails gets
\* no attachment and an audit entry 'unresolved', and the descriptors after
\* it are still processed.
C26_UnresolvedIsSkipped ==
  [][(/\ AttachPass
      /\ att.payload[att.i].type \in {"photo", "image", "video", "doc"}
      /\ att.payload[att.i].source_url = ""
      /\ ResolutionFails(att.payload[att.i]))
       => /\ mdb'.rows = mdb.rows
          /\ att'.entries = Append(att.entries, Entry("unresolved", "missing_source", FALSE, ""))
          /\ att'.i = att.i + 1
          /\ att'.pc = "loop"]_vars

\* C31: after a successful cache_media the attachment's type is the type
\* detected from the download (content-type header, else file extension):
\* a detected type that differs from the declared one replaces it, and the
\* correction is stored together with cache_path.
C31_TypeFollowsContent ==
  [][\A pm \in mdb.rows, o \in CacheOutcomes :
       (/\ CacheCall(pm, o)
        /\ o.kind = "ok"
        /\ pm.source_url # ""
        /\ ~(pm.cache_path # NoPath /\ pm.cache_path \in mdb.files))
         => \E r \in mdb'.rows :
              /\ r.id = pm.id
              /\ r.cache_path = mdb'.returned
              /\ r.cache_path \in mdb'.files
              /\ LET detected == DetectedType(pm.source_url, o.mime)
                 IN /\ detected # "" => r.type = detected
                    /\ detected = "" => r.type = pm.type
                    /\ (detected # "" /\ detected # pm.type) => r.detected_type = detected]_vars

\* An attachment declared a photo was downloaded from an address without
\* extension with a video content type: it is stored as a video.
C31_Witness ==
  \E pm \in mdb.rows :
    /\ pm.source_url = PlainUrl
    /\ pm.type = "video"
    /\ pm.detected_type = "video"
    /\ pm.cache_path \in mdb.files

\* How many times the post's text reached the platform in the dispatch: as
\* a caption of the media group or as a message.
TextDeliveries ==
  Cardinality({j \in DOMAIN tx.group : tx.group[j].caption = tx.text})
  + Cardinality({j \in DOMAIN tx.messages : tx.messages[j] = tx.text})

\* C32: in every successful dispatch of a post whose text is not empty the
\* text reaches the platform exactly once: as the caption of the first
\* media item when it fits the caption limit, else as one message after the
\* media group, or alone when the post has no media; attachments skipped
\* because they cannot be cached do not change that.
C32_TextDeliveredOnce ==
  (tx.pc = "done" /\ tx.outcome = "sent" /\ TextHasContent(tx.text))
    => /\ TextDeliveries = 1
       /\ (tx.medias # <<>> /\ tx.text.len <= CaptionLimit)
            => (tx.group # <<>> /\ tx.group[1].caption = tx.text)
       /\ (tx.medias = <<>> \/ tx.text.len > CaptionLimit) => tx.messages = <<tx.text>>

\* The requests of the finished call, in order, as strategy names.
StrategiesTried ==
  [i \in DOMAIN rs.calls |->
     IF rs.calls[i] = "telegram" THEN "builtin"
     ELSE IF rs.calls[i] = ServiceUrl THEN "service"
     ELSE "html"]

\* C33: _resolve_media_reference tries its strategies in a fixed order: the
\* built-in resolver, then the resolver service when one is configured,
\* otherwise the direct asset address and then HTML scraping.  The first
\* strategy with a result ends the call and no later one is invoked; the
\* direct address and HTML scraping are used only without a resolver service.
C33_StrategiesInOrder ==
  rs.pc = "done" =>
    LET tried == StrategiesTried
        builtin_applies == rs.resolver = "telegram" /\ rs.reference.tg_post_url # ""
        builtin_hit == builtin_applies /\ rs.world.telegram = "file"
        configured == rs.world.service # "unset"
        direct == ReferenceFallbackUrl(rs.reference)
        direct_hit == LooksLikeAsset(direct)
        html_hit == rs.url \in {PageAsset, StalkerAsset}
    IN /\ \A i, j \in DOMAIN tried :
            i < j => /\ tried[i] # "service"
                     /\ tried[j] # "builtin"
       /\ (rs.resolver # "" /\ rs.reference # NoReference /\ builtin_applies)
            => (tried # <<>> /\ tried[1] = "builtin")
       /\ builtin_hit => (rs.url = TgFile /\ tried = <<"builtin">>)
       /\ (~builtin_hit /\ configured /\ rs.resolver # "" /\ rs.reference # NoReference)
            => /\ tried # <<>>
               /\ tried[Len(tried)] = "service"
               /\ \A i \in DOMAIN tried : tried[i] # "html"
               /\ rs.url \in {"", ServiceAsset}
       /\ ~configured => \A i \in DOMAIN tried : tried[i] # "service"
       /\ (~builtin_hit /\ ~configured /\ direct_hit /\ rs.resolver # "")
            => /\ rs.url = direct
               /\ \A i \in DOMAIN tried : tried[i] # "html"
       /\ html_hit => (~configured /\ ~direct_hit /\ ~builtin_hit
                       /\ tried # <<>> /\ tried[Len(tried)] = "html")

\* The built-in resolver found nothing and the configured service answered
\* with an address: both were asked, in this order.
C33_Witness ==
  /\ rs.pc = "done"
  /\ rs.calls = <<"telegram", ServiceUrl>>
  /\ rs.url = ServiceAsset
  /\ rs.reference.direct_url = AssetUrl

\* C34: after purge_cache every attachment whose expires_at is before now
\* has an empty cache_path and its cached file is gone; every attachment
\* whose expires_at is null or in the future keeps its cache_path and file.
C34_PurgeRemovesExactlyExpired ==
  [][PurgeCache =>
       \A r \in mdb.rows :
         IF r.expires_at # NULL /\ r.expires_at < now
           THEN /\ [r EXCEPT !.cache_path = NoPath] \in mdb'.rows
                /\ \A x \in mdb'.rows : x.id = r.id => x.cache_path = NoPath
                /\ r.cache_path \notin mdb'.files
           ELSE (r.expires_at = NULL \/ r.expires_at > now)
                  => /\ r \in mdb'.rows
                     /\ r.cache_path \in mdb.files => r.cache_path \in mdb'.files]_vars

\* A purge has emptied the expired attachment 1 and removed its file, and
\* attachment 2, expiring later, still has its file.
C34_Witness ==
  \E r1, r2 \in mdb.rows :
    /\ r1.id = 1 /\ r1.expires_at # NULL /\ r1.expires_at < now
    /\ r1.cache_path = NoPath /\ <<"cache", 1>> \notin mdb.files
    /\ r2.id = 2 /\ r2.expires_at # NULL /\ r2.expires_at > now
    /\ r2.cache_path = <<"cache", 2>> /\ r2.cache_path \in mdb.files

C35_OrdersAreContiguous ==
  att.pc = "done" =>
    {pm.order : pm \in mdb.rows} = 0..(Cardinality(mdb.rows) - 1)

\* C36: approve_post on a draft stores the post as Scheduled (Approved with a
\* date, rewritten by the save rule), with schedule_mode AUTO, scheduled_at
\* the slot next_auto_slot returns for the channel, dupe_score computed and
\* expires_at cleared.
C36_ApproveSchedulesDraft ==
  [][\A p \in rows :
       (ApprovePost(p) /\ posts[p].status = "DRAFT")
         => /\ posts'[p].status = "SCHEDULED"
            /\ posts'[p].schedule_mode = "AUTO"
            /\ posts'[p].scheduled_at = ToUtc(next_auto_slot(channel, now, UsedSlots(posts, rows)))
            /\ posts'[p].scheduled_at # NULL
            /\ posts'[p].dupe_score = compute_dupe(posts, rows)
            /\ posts'[p].expires_at = NULL
            /\ \A q \in rows \ {p} : posts'[q] = posts[q]]_vars

\* A draft that carried an expiry was approved: it is Scheduled in AUTO mode
\* with a date and a dupe score and without expiry, next to a draft that
\* still has its expiry.
C36_Witness ==
  \E p, q \in rows :
    /\ posts[p].status = "SCHEDULED" /\ posts[p].schedule_mode = "AUTO"
    /\ posts[p].scheduled_at # NULL
    /\ posts[p].expires_at = NULL
    /\ posts[p].dupe_score = compute_dupe(posts, rows)
    /\ posts[q].status = "DRAFT" /\ posts[q].expires_at # NULL

\* C37: assign_auto_slot called twice in succession on the same AUTO post at
\* the same now, nothing else changing, leaves the scheduled_at the first
\* call left: what a second call computes in the state the first call
\* produced is the date already stored.
C37_AssignAutoSlotIsIdempotent ==
  [][\A p \in rows :
       AssignAutoSlot(p)
         => ToUtc(next_auto_slot(channel, now, UsedSlots(posts', rows))) = posts'[p].scheduled_at]_vars

\* C38: Published is terminal: no run of task_publish_due, of publish_post
\* or of the draft-expiry and cache-purge steps of task_housekeeping changes
\* the status of a Published post or sends it again.
C38_PublishedIsTerminal ==
  [][\A p \in rows :
       (/\ posts[p].status = "PUBLISHED"
        /\ \/ \E w \in DueWorkers : DueSelect(w) \/ DueCommit(w) \/ DueEnqueue(w)
           \/ \E w \in PubWorkers, q \in Posts : PublishStart(w, q)
           \/ \E w \in PubWorkers, o \in Outcomes : PublishFinish(w, o)
           \/ Housekeeping
           \/ PurgeCache)
         => (p \in rows' /\ posts'[p].status = "PUBLISHED" /\ sent'[p] = sent[p])]_vars

\* C39: two approve_post / assign_auto_slot calls that run at the same time
\* for two different posts of one channel never give both posts the same
\* scheduled_at.
C39_ConcurrentCallsTakeDifferentSlots ==
  [][\A c \in Callers :
       SlotSave(c)
         => \A q \in rows \ {sv[c].post_id} :
              (posts[q].status \in {"APPROVED", "SCHEDULED"} /\ posts[q].scheduled_at # NULL)
                => posts'[sv[c].post_id].scheduled_at # posts[q].scheduled_at]_vars

====
